---- MODULE Spec2Model ----
(***************************************************************************)
(* Model of the connection pool of src/connection/connection_pool.py and   *)
(* of the query cache of src/caching/query_cache.py.                       *)
(*                                                                         *)
(* A PooledConnection is a handle id h, an index into `handles`; the      *)
(* record handles[h] holds its fields.  `available` is the queue.Queue of  *)
(* idle handles, `in_use` the list of busy ones.  Every thread runs pool   *)
(* calls; a call is cut into steps at each access to state that is shared  *)
(* without the pool lock (the queue, the statistics counters), and the     *)
(* `with self.lock` sections are steps guarded by the lock being free.     *)
(***************************************************************************)
EXTENDS Integers, Sequences, FiniteSets, TLC

\* ---------------------------------------------------------------- bounds
NumThreads == 2     \* threads calling the pool
MaxPool == 2        \* largest max_connections tried
MaxAge == 0         \* largest max_age tried
MaxTime == 1        \* the clock stops here
MaxHandles == 3     \* PooledConnection objects ever created
MaxRequests == 3    \* get_connection calls are started while total_requests is below this
MaxLiveRequests == 2  \* the same cap under fairness and for the request handlers
MaxTtl == 1         \* largest QueryCache.ttl tried
MaxSize == 2        \* largest QueryCache.max_size tried
NumResults == 2     \* distinct query results that are cached
MaxGets == 2        \* QueryCache.get calls are started while fewer than this were made
MaxEvictions == 2   \* QueryCache.set calls are started while evictions is below this
MaxLen == 2         \* longest query text given to _generate_key alone
MaxParams == 2      \* longest parameter sequence given to _generate_key alone
MaxThreshold == 1   \* largest QueryAnalyzer.slow_query_threshold tried
MaxExec == 2        \* longest execution of one query
MaxHistory == 3     \* analyze_query calls are started while query_history is shorter

Threads == 1..NumThreads
MainThread == 1
NoThread == 0
NoConn == 0

VARIABLES
    now,              \* time.time()
    min_connections,  \* ConnectionPool.min_connections
    max_connections,  \* ConnectionPool.max_connections
    max_age,          \* ConnectionPool.max_age
    handles,          \* every PooledConnection created so far: created_at, in_use, closed
    available,        \* ConnectionPool.available (FIFO queue of handle ids)
    in_use,           \* ConnectionPool.in_use (list of handle ids)
    lock,             \* holder of ConnectionPool.lock, NoThread when free
    total_created, total_requests, total_hits, total_misses,
    pc,               \* per thread: where it is in its current call
    conn,             \* per thread: the local variable conn of get_connection
    tmp,              \* per thread: the value loaded by a pending `+= 1`
    ret,              \* per thread: outcome of its last get_connection
    held,             \* per thread: handles returned to it and not yet released by it
    requeued,         \* the handle put back by the last release_connection, until the next dequeue
    ttl,              \* QueryCache.ttl
    max_size,         \* QueryCache.max_size
    cache,            \* QueryCache.cache: the dict, as its entries in insertion order
    hits, misses, evictions,
    cpc,              \* per thread: where it is in its current QueryCache call
    call,             \* per thread: the arguments of its current QueryCache call, and whether
                      \* their key was present when the call was made
    cache_key,        \* per thread: the local variable cache_key
    oldest_key,       \* per thread: the local variable oldest_key of set
    cached,           \* per thread: the locals cached_time, result of get
    ctmp,             \* per thread: the value loaded by a pending `+= 1` on a cache counter
    cret,             \* per thread: outcome of its last QueryCache call
    get_calls,        \* QueryCache.get calls started since construction or the last clear
    slow_query_threshold,  \* QueryAnalyzer.slow_query_threshold
    query_history,    \* QueryAnalyzer.query_history: the list of analysis records
    slow_queries,     \* QueryAnalyzer.slow_queries
    qpc,              \* per thread: where it is in its current QueryAnalyzer call
    qcall,            \* per thread: the arguments of its current QueryAnalyzer call, and
                      \* the lengths of the two lists when the call was made
    qloc,             \* per thread: the locals of analyze_query and compare_queries
    qret,             \* per thread: outcome of its last QueryAnalyzer call
    apc,              \* per thread: where it is in its current request handler
    areq,             \* per thread: the locals query, params of the handler
    aconn,            \* per thread: the local conn of the handler
    aresult,          \* per thread: the locals cached_result, result of the handler
    aresp             \* per thread: what its last request ended with

config == <<min_connections, max_connections, max_age>>
counters == <<total_created, total_requests, total_hits, total_misses>>
poolvars == <<handles, available, in_use, lock>>
locals == <<pc, conn, tmp, ret, held>>
pool == <<config, poolvars, counters, locals, requeued>>
cacheconfig == <<ttl, max_size>>
cachestats == <<hits, misses, evictions>>
cachelocals == <<cpc, call, cache_key, oldest_key, cached, ctmp, cret>>
cachevars == <<cacheconfig, cache, cachestats, cachelocals, get_calls>>
analyzerstate == <<slow_query_threshold, query_history, slow_queries>>
analyzervars == <<analyzerstate, qpc, qcall, qloc, qret>>
appvars == <<apc, areq, aconn, aresult, aresp>>
vars == <<now, config, poolvars, counters, locals, requeued, cachevars, analyzervars, appvars>>

\* ------------------------------------------------------- PooledConnection
\* PooledConnection.__init__: created_at = time.time(), in_use = False.
PooledConnection == [created_at |-> now, in_use |-> FALSE, closed |-> FALSE]

\* faulty variant of is_expired: a handle of age exactly max_age counts as expired
is_expired_ge(h) == now - handles[h].created_at >= max_age

\* PooledConnection.is_expired(max_age)
is_expired(h) == now - handles[h].created_at > max_age

\* conn.connection.close()
CloseIn(hs, h) == [hs EXCEPT ![h].closed = TRUE]

\* faulty variant of SetInUse: the flag is left as it was
SetInUseNot(hs, h, b) == hs

\* conn.in_use = b
SetInUse(hs, h, b) == [hs EXCEPT ![h].in_use = b]

\* ------------------------------------------------------------ queue, list
\* faulty variant of Remove: the list is left as it was
RemoveKeep(s, x) == s

RECURSIVE Remove(_, _)
\* list.remove(x): drops the first occurrence
Remove(s, x) ==
    IF s = <<>> THEN <<>>
    ELSE IF Head(s) = x THEN Tail(s)
    ELSE <<Head(s)>> \o Remove(Tail(s), x)

Elems(s) == {s[i] : i \in 1..Len(s)}

\* Queue.full(): the queue was built with maxsize = max_connections
QueueFull(q) == Len(q) >= max_connections

\* faulty variant of AfterGet: the item stays in the queue
AfterGetKeep(q) == q

\* what Queue.get leaves in the queue
AfterGet(q) == Tail(q)

\* faulty variant of HasCapacity: <= for <
HasCapacityLe == Len(available) + Len(in_use) <= max_connections

\* total_connections < self.max_connections
HasCapacity == Len(available) + Len(in_use) < max_connections

\* ------------------------------------------------------- QueryCache values
\* text is a sequence of characters; a query argument may be missing (None)
NoQuery == [given |-> FALSE, text |-> <<>>]
Query(txt) == [given |-> TRUE, text |-> txt]

\* params is None, a list or a tuple
NoParams == [kind |-> "none", items |-> <<>>]
List(xs) == [kind |-> "list", items |-> xs]
Tuple(xs) == [kind |-> "tuple", items |-> xs]

\* bool(query), bool(params): None, "" and empty sequences are false
\* faulty variant of QueryTruthy: the test `query is not None`
QueryNotNone(q) == q.given

QueryTruthy(q) == q.given /\ q.text # <<>>
ParamsTruthy(p) == p.kind # "none" /\ p.items # <<>>

IsSpace(ch) == ch = " "

RECURSIVE LStrip(_)
LStrip(s) == IF s # <<>> /\ IsSpace(Head(s)) THEN LStrip(Tail(s)) ELSE s

RECURSIVE RStrip(_)
RStrip(s) ==
    IF s # <<>> /\ IsSpace(s[Len(s)]) THEN RStrip(SubSeq(s, 1, Len(s) - 1)) ELSE s

\* str.strip()
Strip(s) == RStrip(LStrip(s))

LowerChar(ch) ==
    CASE ch = "A" -> "a"
      [] ch = "B" -> "b"
      [] OTHER -> ch

\* str.lower()
Lower(s) == [i \in 1..Len(s) |-> LowerChar(s[i])]

\* faulty variant of ParamsOrEmpty: params is serialised as given
ParamsAsGiven(p) == p

\* params or []
ParamsOrEmpty(p) == IF ParamsTruthy(p) THEN p ELSE List(<<>>)

\* json.dumps of a list or of a tuple: the same array; of None: null
JsonArray(p) == IF p.kind = "none" THEN [null |-> TRUE, array |-> <<>>]
                ELSE [null |-> FALSE, array |-> p.items]

\* json.dumps(cache_data, sort_keys=True): the fields in the order params, query
JsonDumps(query_text, params) == [params |-> JsonArray(params), query |-> query_text]

\* hashlib.md5(...).hexdigest(): one digest per text, different texts taken to
\* give different digests
Md5(cache_str) == [md5_of |-> cache_str]

\* QueryCache._generate_key
_generate_key(query, params) ==
    Md5(JsonDumps(Lower(Strip(query.text)), ParamsOrEmpty(params)))

\* values of the locals before they are assigned
NoKey == Md5(JsonDumps(<<"?">>, NoParams))
NoEntry == [time |-> 0, result |-> 0]
NoCall == [op |-> "none", query |-> NoQuery, params |-> NoParams, result |-> 0,
           present |-> FALSE]
Outcome(k, v) == [kind |-> k, value |-> v]
NoOutcome == Outcome("none", 0)

Results == 1..NumResults

\* ------------------------------------------------------------ the dict
Keys(c) == {c[i].key : i \in 1..Len(c)}

\* self.cache[k]
Lookup(c, k) == LET i == CHOOSE j \in 1..Len(c) : c[j].key = k
                IN [time |-> c[i].time, result |-> c[i].result]

\* faulty variant of Del: the entry stays
DelKeep(c, k) == c

\* del self.cache[k]
Del(c, k) == SelectSeq(c, LAMBDA e : e.key # k)

\* faulty variant of Clear: the entries stay
ClearKeep(c) == c

\* self.cache.clear()
Clear(c) == <<>>

\* faulty variant of Store: a present key keeps its old entry
StoreKeep(c, k, ts, v) ==
    IF k \in Keys(c) THEN c ELSE Append(c, [key |-> k, time |-> ts, result |-> v])

\* self.cache[k] = (ts, v): a present key keeps its place in the iteration order
Store(c, k, ts, v) ==
    IF k \in Keys(c)
    THEN [i \in 1..Len(c) |->
            IF c[i].key = k THEN [key |-> k, time |-> ts, result |-> v] ELSE c[i]]
    ELSE Append(c, [key |-> k, time |-> ts, result |-> v])

\* min(self.cache.keys(), key=lambda k: self.cache[k][0]): the first key, in
\* iteration order, among those of smallest timestamp
OldestKey(c) ==
    c[CHOOSE i \in 1..Len(c) :
        \A j \in 1..Len(c) : c[i].time < c[j].time \/ (c[i].time = c[j].time /\ i <= j)].key

\* faulty variant of Fresh: an entry of age exactly ttl still counts as fresh
FreshLe(ts) == now - ts <= ttl

\* time.time() - cached_time < self.ttl
Fresh(ts) == now - ts < ttl

\* ------------------------------------------------------ QueryAnalyzer values
\* the last clock value a query execution can end at
ClockEnd == MaxTime + MaxExec

\* a connection made by the caller itself, outside the pool
OutsideConn == NoConn

\* the (query, params) arguments given to the analyzer
AnalyzerArgs ==
    { [query |-> Query(<<"a">>), params |-> NoParams],
      [query |-> Query(<<"b">>), params |-> Tuple(<<1>>)] }

\* len(results): result r is a list of r - 1 rows
RowCount(r) == r - 1

\* the rows EXPLAIN QUERY PLAN gives, as dicts
EnginePlan == <<[detail |-> "SCAN"]>>

\* the exception a failing connection.execute raises
EngineError == "OperationalError"

\* faulty variant of IsSlow: >= for >
IsSlowGe(execution_time) == execution_time >= slow_query_threshold

\* execution_time > self.slow_query_threshold
IsSlow(execution_time) == execution_time > slow_query_threshold

\* faulty variant of HistoryAppend: the record goes to the front
HistoryPrepend(history, analysis) == <<analysis>> \o history

\* self.query_history.append(analysis)
HistoryAppend(history, analysis) == Append(history, analysis)

\* lines 61-69: the analysis dict
Analysis(query, params, execution_time, results, query_plan) ==
    [query |-> query,
     params |-> params,
     execution_time |-> execution_time,
     rows_returned |-> RowCount(results),
     is_slow |-> IsSlow(execution_time),
     query_plan |-> query_plan,
     timestamp |-> now]

NoAnalysis ==
    [query |-> NoQuery, params |-> NoParams, execution_time |-> 0, rows_returned |-> 0,
     is_slow |-> FALSE, query_plan |-> <<>>, timestamp |-> 0]

\* lines 79-82: what analyze_query returns
AnalyzeResult(results, analysis) == [results |-> results, analysis |-> analysis]
NoResult == AnalyzeResult(0, NoAnalysis)

\* the lengths of the two lists when a call is made
Seen == [history |-> Len(query_history), slow |-> Len(slow_queries)]

NoQCall == [op |-> "none", conn |-> OutsideConn, query |-> NoQuery, params |-> NoParams,
            query2 |-> NoQuery, params2 |-> NoParams, seen |-> [history |-> 0, slow |-> 0]]

\* stage: 1 while compare_queries analyses query1 (and in a plain analyze_query),
\* 2 while it analyses query2
NoLocals == [start_time |-> 0, results |-> 0, execution_time |-> 0, query_plan |-> <<>>,
             analysis |-> NoAnalysis, result1 |-> NoResult, stage |-> 1,
             execution_times |-> <<>>]

QOutcome(k, v) == [kind |-> k, value |-> v]
NoQOutcome == QOutcome("none", 0)

RECURSIVE Pow10(_)
Pow10(n) == IF n = 0 THEN 1 ELSE 10 * Pow10(n - 1)

\* num / den rounded to the nearest integer; no tie (remainder of exactly one half)
\* occurs for the denominators the bounds reach
Nearest(num, den) == (2 * num + den) \div (2 * den)

\* f"{num / den:.<digits>f}<suffix>": the number in units of 10^-digits, and the suffix
Format(num, den, digits, suffix) ==
    [units |-> Nearest(num * Pow10(digits), den), digits |-> digits, suffix |-> suffix]

RECURSIVE Sum(_)
Sum(s) == IF s = <<>> THEN 0 ELSE Head(s) + Sum(Tail(s))

Min(s) == CHOOSE x \in Elems(s) : \A y \in Elems(s) : x <= y
Max(s) == CHOOSE x \in Elems(s) : \A y \in Elems(s) : y <= x

\* line 99
ExecutionTimes(history) == [i \in 1..Len(history) |-> history[i].execution_time]

\* lines 91-97
EmptyStats ==
    [total_queries |-> 0, slow_queries |-> 0,
     avg_execution_time |-> 0, min_execution_time |-> 0, max_execution_time |-> 0]

\* lines 88-108
Stats(history, slow) ==
    IF history = <<>> THEN EmptyStats
    ELSE LET execution_times == ExecutionTimes(history) IN
         [total_queries |-> Len(history),
          slow_queries |-> Len(slow),
          slow_query_percentage |-> Format(Len(slow) * 100, Len(history), 2, "%"),
          avg_execution_time |-> Format(Sum(execution_times), Len(execution_times), 4, "s"),
          min_execution_time |-> Format(Min(execution_times), 1, 4, "s"),
          max_execution_time |-> Format(Max(execution_times), 1, 4, "s")]

\* faulty variant of Faster: a tie goes to query2
FasterLe(time1, time2) == IF time2 <= time1 THEN "query2" ELSE "query1"

\* line 174
Faster(time1, time2) == IF time2 < time1 THEN "query2" ELSE "query1"

\* line 160 and line 173
Speedup(time1, time2) ==
    IF time2 > 0 THEN Format(time1, time2, 2, "x") ELSE Format(0, 1, 2, "x")

\* lines 157-175
Comparison(query1, query2, result1, result2) ==
    LET time1 == result1.analysis.execution_time
        time2 == result2.analysis.execution_time
    IN [query1 |-> [query |-> query1, time |-> Format(time1, 1, 4, "s"),
                    rows |-> result1.analysis.rows_returned],
        query2 |-> [query |-> query2, time |-> Format(time2, 1, 4, "s"),
                    rows |-> result2.analysis.rows_returned],
        speedup |-> Speedup(time1, time2),
        faster |-> Faster(time1, time2)]

\* QueryAnalyzer.__init__
AnalyzerConstructed(thresholds) ==
    /\ slow_query_threshold \in thresholds
    /\ query_history = <<>>
    /\ slow_queries = <<>>
    /\ qpc = [t \in Threads |-> "idle"]
    /\ qcall = [t \in Threads |-> NoQCall]
    /\ qloc = [t \in Threads |-> NoLocals]
    /\ qret = [t \in Threads |-> NoQOutcome]

\* what a request ends with: jsonify(...) with its rows and its 'cached' flag, or the
\* exception that left the handler
Response(kind, rows, is_cached) == [kind |-> kind, rows |-> rows, cached |-> is_cached]
NoResponse == Response("none", 0, FALSE)

\* no request is being handled
AppIdle ==
    /\ apc = [t \in Threads |-> "idle"]
    /\ areq = [t \in Threads |-> [handler |-> "none", query |-> NoQuery,
                                   params |-> NoParams]]
    /\ aconn = [t \in Threads |-> NoConn]
    /\ aresult = [t \in Threads |-> 0]
    /\ aresp = [t \in Threads |-> NoResponse]

\* ------------------------------------------------------------------ Init
RECURSIVE InitialHandles(_)
\* _initialize_pool: min_connections handles, all created at construction time
InitialHandles(n) ==
    IF n = 0 THEN <<>>
    ELSE Append(InitialHandles(n - 1), [created_at |-> 0, in_use |-> FALSE, closed |-> FALSE])

\* ConnectionPool.__init__ at time 0
PoolConstructed(mins, maxs) ==
    /\ now = 0
    /\ max_connections \in maxs
    /\ min_connections \in mins \cap (0..max_connections)
    /\ max_age \in 0..MaxAge
    /\ handles = InitialHandles(min_connections)
    /\ available = [i \in 1..min_connections |-> i]
    /\ in_use = <<>>
    /\ lock = NoThread
    /\ total_created = min_connections
    /\ total_requests = 0
    /\ total_hits = 0
    /\ total_misses = 0
    /\ pc = [t \in Threads |-> "idle"]
    /\ conn = [t \in Threads |-> NoConn]
    /\ tmp = [t \in Threads |-> 0]
    /\ ret = [t \in Threads |-> "none"]
    /\ held = [t \in Threads |-> {}]
    /\ requeued = NoConn

\* QueryCache.__init__
CacheConstructed(ttls, sizes) ==
    /\ ttl \in ttls
    /\ max_size \in sizes
    /\ cache = <<>>
    /\ hits = 0
    /\ misses = 0
    /\ evictions = 0
    /\ cpc = [t \in Threads |-> "idle"]
    /\ call = [t \in Threads |-> NoCall]
    /\ cache_key = [t \in Threads |-> NoKey]
    /\ oldest_key = [t \in Threads |-> NoKey]
    /\ cached = [t \in Threads |-> NoEntry]
    /\ ctmp = [t \in Threads |-> 0]
    /\ cret = [t \in Threads |-> NoOutcome]
    /\ get_calls = 0

\* every pool configuration, next to one unused cache
Init ==
    /\ PoolConstructed(0..MaxPool, 1..MaxPool)
    /\ CacheConstructed({MaxTtl}, {MaxSize})
    /\ AnalyzerConstructed({MaxThreshold})
    /\ AppIdle

\* every cache configuration, next to one unused pool
InitCache ==
    /\ PoolConstructed({0}, {1})
    /\ CacheConstructed(1..MaxTtl, 0..MaxSize)
    /\ AnalyzerConstructed({MaxThreshold})
    /\ AppIdle

\* time passes
Tick ==
    /\ now < MaxTime
    /\ now' = now + 1
    /\ UNCHANGED <<appvars, analyzervars, cachevars, config, poolvars, counters, locals, requeued>>

\* --------------------------------------------------------- get_connection
\* line 122, load half of self.total_requests += 1
GetConnection(t) ==
    /\ pc[t] = "idle"
    /\ total_requests < MaxRequests
    /\ tmp' = [tmp EXCEPT ![t] = total_requests]
    /\ ret' = [ret EXCEPT ![t] = "none"]
    /\ pc' = [pc EXCEPT ![t] = "req_store"]
    /\ UNCHANGED <<appvars, analyzervars, cachevars, now, config, poolvars, counters, conn, held, requeued>>

\* line 122, store half
StoreRequests(t) ==
    /\ pc[t] = "req_store"
    /\ total_requests' = tmp[t] + 1
    /\ tmp' = [tmp EXCEPT ![t] = 0]
    /\ pc' = [pc EXCEPT ![t] = "wait"]
    /\ UNCHANGED <<appvars, analyzervars, cachevars, now, config, poolvars, total_created, total_hits, total_misses,
                   conn, ret, held, requeued>>

\* line 126: the queue holds an item, the wait ends with it
QueueGet(t) ==
    /\ pc[t] = "wait"
    /\ available # <<>>
    /\ conn' = [conn EXCEPT ![t] = Head(available)]
    /\ available' = AfterGet(available)
    /\ requeued' = NoConn
    /\ pc' = [pc EXCEPT ![t] = "check"]
    /\ UNCHANGED <<appvars, analyzervars, cachevars, now, config, handles, in_use, lock, counters, tmp, ret, held>>

\* faulty variant of QueueEmpty: a wait without timeout, an empty queue never ends it
QueueEmptyNever(t) ==
    /\ FALSE
    /\ UNCHANGED vars

\* line 126 -> 145: the queue is empty when the timeout ends the wait
QueueEmpty(t) ==
    /\ pc[t] = "wait"
    /\ available = <<>>
    /\ pc' = [pc EXCEPT ![t] = "empty"]
    /\ UNCHANGED <<appvars, analyzervars, cachevars, now, config, poolvars, counters, conn, tmp, ret, held, requeued>>

\* lines 129-135: expired -> close it, build a replacement, load total_created;
\* otherwise load total_hits
CheckExpired(t) ==
    /\ pc[t] = "check"
    /\ IF is_expired(conn[t])
       THEN /\ Len(handles) < MaxHandles
            /\ handles' = Append(CloseIn(handles, conn[t]), PooledConnection)
            /\ conn' = [conn EXCEPT ![t] = Len(handles) + 1]
            /\ tmp' = [tmp EXCEPT ![t] = total_created]
            /\ pc' = [pc EXCEPT ![t] = "created_store"]
       ELSE /\ tmp' = [tmp EXCEPT ![t] = total_hits]
            /\ pc' = [pc EXCEPT ![t] = "hit_store"]
            /\ UNCHANGED <<handles, conn>>
    /\ UNCHANGED <<appvars, analyzervars, cachevars, now, config, available, in_use, lock, counters, ret, held, requeued>>

\* faulty variant of StoreHits: the reuse is counted as a miss
StoreHitsAsMiss(t) ==
    /\ pc[t] = "hit_store"
    /\ total_misses' = total_misses + 1
    /\ tmp' = [tmp EXCEPT ![t] = 0]
    /\ pc' = [pc EXCEPT ![t] = "mark"]
    /\ UNCHANGED <<appvars, analyzervars, cachevars, now, config, poolvars, total_created, total_requests, total_hits,
                   conn, ret, held, requeued>>

\* line 135, store half of self.total_hits += 1
StoreHits(t) ==
    /\ pc[t] = "hit_store"
    /\ total_hits' = tmp[t] + 1
    /\ tmp' = [tmp EXCEPT ![t] = 0]
    /\ pc' = [pc EXCEPT ![t] = "mark"]
    /\ UNCHANGED <<appvars, analyzervars, cachevars, now, config, poolvars, total_created, total_requests, total_misses,
                   conn, ret, held, requeued>>

\* lines 147-162, first part: take the lock, count the tracked handles; at capacity
\* raise TimeoutError, otherwise build a new handle
EmptyLocked(t) ==
    /\ pc[t] = "empty"
    /\ lock = NoThread
    /\ IF HasCapacity
       THEN /\ Len(handles) < MaxHandles
            /\ lock' = t
            /\ handles' = Append(handles, PooledConnection)
            /\ conn' = [conn EXCEPT ![t] = Len(handles) + 1]
            /\ pc' = [pc EXCEPT ![t] = "created_load"]
            /\ UNCHANGED ret
       ELSE /\ ret' = [ret EXCEPT ![t] = "TimeoutError"]
            /\ pc' = [pc EXCEPT ![t] = "idle"]
            /\ UNCHANGED <<lock, handles, conn>>
    /\ UNCHANGED <<appvars, analyzervars, cachevars, now, config, available, in_use, counters, tmp, held, requeued>>

\* line 107 reached from line 152: load half of self.total_created += 1
LoadCreated(t) ==
    /\ pc[t] = "created_load"
    /\ tmp' = [tmp EXCEPT ![t] = total_created]
    /\ pc' = [pc EXCEPT ![t] = "created_store"]
    /\ UNCHANGED <<appvars, analyzervars, cachevars, now, config, poolvars, counters, conn, ret, held, requeued>>

\* line 107, store half; under the lock (from line 152) lines 153-154 follow
StoreCreated(t) ==
    /\ pc[t] = "created_store"
    /\ total_created' = tmp[t] + 1
    /\ IF lock = t
       THEN /\ handles' = SetInUse(handles, conn[t], TRUE)
            /\ in_use' = Append(in_use, conn[t])
       ELSE UNCHANGED <<handles, in_use>>
    /\ tmp' = [tmp EXCEPT ![t] = 0]
    /\ pc' = [pc EXCEPT ![t] = "miss_load"]
    /\ UNCHANGED <<appvars, analyzervars, cachevars, now, config, available, lock, total_requests, total_hits, total_misses,
                   conn, ret, held, requeued>>

\* lines 133 and 155, load half of self.total_misses += 1
LoadMisses(t) ==
    /\ pc[t] = "miss_load"
    /\ tmp' = [tmp EXCEPT ![t] = total_misses]
    /\ pc' = [pc EXCEPT ![t] = "miss_store"]
    /\ UNCHANGED <<appvars, analyzervars, cachevars, now, config, poolvars, counters, conn, ret, held, requeued>>

\* lines 133 and 155, store half; under the lock the call returns (line 158)
StoreMisses(t) ==
    /\ pc[t] = "miss_store"
    /\ total_misses' = tmp[t] + 1
    /\ tmp' = [tmp EXCEPT ![t] = 0]
    /\ IF lock = t
       THEN /\ lock' = NoThread
            /\ ret' = [ret EXCEPT ![t] = "conn"]
            /\ held' = [held EXCEPT ![t] = @ \cup {conn[t]}]
            /\ conn' = [conn EXCEPT ![t] = NoConn]
            /\ pc' = [pc EXCEPT ![t] = "idle"]
       ELSE /\ pc' = [pc EXCEPT ![t] = "mark"]
            /\ UNCHANGED <<lock, ret, held, conn>>
    /\ UNCHANGED <<appvars, analyzervars, cachevars, now, config, handles, available, in_use, total_created, total_requests,
                   total_hits, requeued>>

\* faulty variant of MarkInUse: the handle is flagged but not listed in in_use
MarkInUseUnlisted(t) ==
    /\ pc[t] = "mark"
    /\ lock = NoThread
    /\ handles' = SetInUse(handles, conn[t], TRUE)
    /\ ret' = [ret EXCEPT ![t] = "conn"]
    /\ held' = [held EXCEPT ![t] = @ \cup {conn[t]}]
    /\ conn' = [conn EXCEPT ![t] = NoConn]
    /\ pc' = [pc EXCEPT ![t] = "idle"]
    /\ UNCHANGED <<appvars, analyzervars, cachevars, now, config, available, in_use, lock, counters, tmp, requeued>>

\* lines 138-143
MarkInUse(t) ==
    /\ pc[t] = "mark"
    /\ lock = NoThread
    /\ handles' = SetInUse(handles, conn[t], TRUE)
    /\ in_use' = Append(in_use, conn[t])
    /\ ret' = [ret EXCEPT ![t] = "conn"]
    /\ held' = [held EXCEPT ![t] = @ \cup {conn[t]}]
    /\ conn' = [conn EXCEPT ![t] = NoConn]
    /\ pc' = [pc EXCEPT ![t] = "idle"]
    /\ UNCHANGED <<appvars, analyzervars, cachevars, now, config, available, lock, counters, tmp, requeued>>

\* ------------------------------------------------------ release_connection
\* faulty variant of PutBack: the handle is never queued again
PutBackDrop(h) ==
    /\ UNCHANGED available
    /\ handles' = SetInUse(handles, h, FALSE)
    /\ requeued' = NoConn

\* lines 174-183: conn.in_use = False, then available.put_nowait(conn), or
\* conn.connection.close() when the queue is full
PutBack(h) ==
    IF QueueFull(available)
    THEN /\ UNCHANGED available
         /\ handles' = CloseIn(SetInUse(handles, h, FALSE), h)
         /\ requeued' = NoConn
    ELSE /\ available' = Append(available, h)
         /\ handles' = SetInUse(handles, h, FALSE)
         /\ requeued' = h

\* faulty variant of release_connection: no test of line 172, the handle is put
\* back whether it is in in_use or not
release_unguarded(t, h) ==
    /\ pc[t] = "idle"
    /\ lock = NoThread
    /\ in_use' = Remove(in_use, h)
    /\ PutBack(h)
    /\ held' = [held EXCEPT ![t] = @ \ {h}]
    /\ UNCHANGED <<appvars, analyzervars, cachevars, now, config, lock, counters, pc, conn, tmp, ret>>

\* lines 171-183, one lock section
release_connection(t, h) ==
    /\ pc[t] = "idle"
    /\ lock = NoThread
    /\ IF h \in Elems(in_use)
       THEN /\ in_use' = Remove(in_use, h)
            /\ PutBack(h)
       ELSE UNCHANGED <<handles, available, in_use, requeued>>
    /\ held' = [held EXCEPT ![t] = @ \ {h}]
    /\ UNCHANGED <<appvars, analyzervars, cachevars, now, config, lock, counters, pc, conn, tmp, ret>>

\* the caller releases a handle it holds
ReleaseHeld(t) == \E h \in held[t] : release_connection(t, h)

\* the caller releases any handle it ever saw, held or not
ReleaseAny(t) == \E h \in 1..Len(handles) : release_connection(t, h)

\* --------------------------------------------------------------- close_all
\* faulty variant of CloseEach: nothing is closed
CloseNone(hs, s) == hs

RECURSIVE CloseEach(_, _)
\* for conn in self.in_use: conn.connection.close()
CloseEach(hs, s) ==
    IF s = <<>> THEN hs ELSE CloseEach(CloseIn(hs, Head(s)), Tail(s))

\* lines 187-191
close_all(t) ==
    /\ pc[t] = "idle"
    /\ lock = NoThread
    /\ lock' = t
    /\ handles' = CloseEach(handles, in_use)
    /\ in_use' = <<>>
    /\ pc' = [pc EXCEPT ![t] = "drain"]
    /\ UNCHANGED <<appvars, analyzervars, cachevars, now, config, available, counters, conn, tmp, ret, held, requeued>>

\* faulty variant of DrainAvailable: close_all returns without giving the lock back
DrainAvailableLocked(t) ==
    /\ pc[t] = "drain"
    /\ IF available # <<>>
       THEN /\ handles' = CloseIn(handles, Head(available))
            /\ available' = AfterGet(available)
            /\ requeued' = NoConn
            /\ UNCHANGED pc
       ELSE /\ pc' = [pc EXCEPT ![t] = "idle"]
            /\ UNCHANGED <<handles, available, requeued>>
    /\ UNCHANGED <<appvars, analyzervars, cachevars, now, config, in_use, lock, counters, conn, tmp, ret, held>>

\* lines 194-199, one turn of the loop; the lock is given back when the queue is empty
DrainAvailable(t) ==
    /\ pc[t] = "drain"
    /\ IF available # <<>>
       THEN /\ handles' = CloseIn(handles, Head(available))
            /\ available' = AfterGet(available)
            /\ requeued' = NoConn
            /\ UNCHANGED <<lock, pc>>
       ELSE /\ lock' = NoThread
            /\ pc' = [pc EXCEPT ![t] = "idle"]
            /\ UNCHANGED <<handles, available, requeued>>
    /\ UNCHANGED <<appvars, analyzervars, cachevars, now, config, in_use, counters, conn, tmp, ret, held>>

\* --------------------------------------------------------------- get_stats
\* lines 206-215: the dict get_stats returns, read in one lock section
get_stats ==
    [total_created |-> total_created,
     total_requests |-> total_requests,
     cache_hits |-> total_hits,
     cache_misses |-> total_misses,
     hit_rate |-> IF total_requests > 0
                  THEN Format(total_hits * 100, total_requests, 2, "%")
                  ELSE Format(0, 1, 2, "%"),
     available |-> Len(available),
     in_use |-> Len(in_use),
     total_connections |-> Len(available) + Len(in_use)]

\* lines 203-215: the lock is taken and given back, nothing is written
GetStats(t) ==
    /\ pc[t] = "idle"
    /\ lock = NoThread
    /\ UNCHANGED vars

\* -------------------------------------------------------- QueryCache calls
\* the (query, params) arguments tried: <<"a">> and <<" ", "A">> are one query
\* after normalisation, None and [] one parameter sequence
CacheArgs ==
    { [query |-> Query(<<"a">>), params |-> NoParams],
      [query |-> Query(<<" ", "A">>), params |-> List(<<>>)],
      [query |-> Query(<<"b">>), params |-> NoParams],
      [query |-> Query(<<"a">>), params |-> List(<<1>>)],
      [query |-> Query(<<>>), params |-> NoParams] }

\* whether the key of these arguments is in the dict when the call is made
Present(a) == _generate_key(a.query, a.params) \in Keys(cache)

\* the caller is in no pool call and in no cache call
CacheIdle(t) == pc[t] = "idle" /\ cpc[t] = "idle"

\* the call returns or raises: its arguments and cache_key go out of scope
Return(t, outcome) ==
    /\ cret' = [cret EXCEPT ![t] = outcome]
    /\ cpc' = [cpc EXCEPT ![t] = "idle"]
    /\ call' = [call EXCEPT ![t] = NoCall]
    /\ cache_key' = [cache_key EXCEPT ![t] = NoKey]

\* ---------------------------------------------------------- QueryCache.get
\* line 72
CacheGet(t, a) ==
    /\ CacheIdle(t)
    /\ get_calls < MaxGets
    /\ call' = [call EXCEPT ![t] = [op |-> "get", query |-> a.query, params |-> a.params,
                                    result |-> 0, present |-> Present(a)]]
    /\ cache_key' = [cache_key EXCEPT ![t] = _generate_key(a.query, a.params)]
    /\ cret' = [cret EXCEPT ![t] = NoOutcome]
    /\ cpc' = [cpc EXCEPT ![t] = "g_in"]
    /\ get_calls' = get_calls + 1
    /\ UNCHANGED <<now, pool, appvars, analyzervars, cacheconfig, cache, cachestats, oldest_key, cached, ctmp>>

\* line 74: if cache_key in self.cache
GetIn(t) ==
    /\ cpc[t] = "g_in"
    /\ cpc' = [cpc EXCEPT ![t] = IF cache_key[t] \in Keys(cache) THEN "g_read" ELSE "g_miss"]
    /\ UNCHANGED <<now, pool, appvars, analyzervars, cacheconfig, cache, cachestats, call, cache_key, oldest_key,
                   cached, ctmp, cret, get_calls>>

\* line 75: cached_time, result = self.cache[cache_key]; KeyError when the key is gone
GetRead(t) ==
    /\ cpc[t] = "g_read"
    /\ IF cache_key[t] \in Keys(cache)
       THEN /\ cached' = [cached EXCEPT ![t] = Lookup(cache, cache_key[t])]
            /\ cpc' = [cpc EXCEPT ![t] = "g_time"]
            /\ UNCHANGED <<call, cache_key, cret>>
       ELSE /\ Return(t, Outcome("KeyError", 0))
            /\ UNCHANGED cached
    /\ UNCHANGED <<now, pool, appvars, analyzervars, cacheconfig, cache, cachestats, oldest_key,
                   ctmp, get_calls>>

\* line 78, then the load half of self.hits += 1 (line 79)
GetTime(t) ==
    /\ cpc[t] = "g_time"
    /\ IF Fresh(cached[t].time)
       THEN /\ ctmp' = [ctmp EXCEPT ![t] = hits]
            /\ cpc' = [cpc EXCEPT ![t] = "g_hit_store"]
       ELSE /\ cpc' = [cpc EXCEPT ![t] = "g_del"]
            /\ UNCHANGED ctmp
    /\ UNCHANGED <<now, pool, appvars, analyzervars, cacheconfig, cache, cachestats, call, cache_key, oldest_key,
                   cached, cret, get_calls>>

\* line 79, store half; line 81: return result
GetHitStore(t) ==
    /\ cpc[t] = "g_hit_store"
    /\ hits' = ctmp[t] + 1
    /\ ctmp' = [ctmp EXCEPT ![t] = 0]
    /\ Return(t, Outcome("value", cached[t].result))
    /\ cached' = [cached EXCEPT ![t] = NoEntry]
    /\ UNCHANGED <<now, pool, appvars, analyzervars, cacheconfig, cache, misses, evictions, oldest_key, get_calls>>

\* line 84: del self.cache[cache_key]; KeyError when the key is gone
GetDel(t) ==
    /\ cpc[t] = "g_del"
    /\ cached' = [cached EXCEPT ![t] = NoEntry]
    /\ IF cache_key[t] \in Keys(cache)
       THEN /\ cache' = Del(cache, cache_key[t])
            /\ cpc' = [cpc EXCEPT ![t] = "g_miss"]
            /\ UNCHANGED <<call, cache_key, cret>>
       ELSE /\ Return(t, Outcome("KeyError", 0))
            /\ UNCHANGED cache
    /\ UNCHANGED <<now, pool, appvars, analyzervars, cacheconfig, cachestats, oldest_key, ctmp,
                   get_calls>>

\* line 87, load half of self.misses += 1
GetMissLoad(t) ==
    /\ cpc[t] = "g_miss"
    /\ ctmp' = [ctmp EXCEPT ![t] = misses]
    /\ cpc' = [cpc EXCEPT ![t] = "g_miss_store"]
    /\ UNCHANGED <<now, pool, appvars, analyzervars, cacheconfig, cache, cachestats, call, cache_key, oldest_key,
                   cached, cret, get_calls>>

\* line 87, store half; line 89: return None
GetMissStore(t) ==
    /\ cpc[t] = "g_miss_store"
    /\ misses' = ctmp[t] + 1
    /\ ctmp' = [ctmp EXCEPT ![t] = 0]
    /\ Return(t, Outcome("absent", 0))
    /\ UNCHANGED <<now, pool, appvars, analyzervars, cacheconfig, cache, hits, evictions, oldest_key, cached, get_calls>>

\* ---------------------------------------------------------- QueryCache.set
\* line 100
CacheSet(t, a, v) ==
    /\ CacheIdle(t)
    /\ evictions < MaxEvictions
    /\ call' = [call EXCEPT ![t] = [op |-> "set", query |-> a.query, params |-> a.params,
                                    result |-> v, present |-> Present(a)]]
    /\ cache_key' = [cache_key EXCEPT ![t] = _generate_key(a.query, a.params)]
    /\ cret' = [cret EXCEPT ![t] = NoOutcome]
    /\ cpc' = [cpc EXCEPT ![t] = "s_len"]
    /\ UNCHANGED <<now, pool, appvars, analyzervars, cacheconfig, cache, cachestats, oldest_key, cached, ctmp,
                   get_calls>>

\* line 103: if len(self.cache) >= self.max_size
SetLen(t) ==
    /\ cpc[t] = "s_len"
    /\ cpc' = [cpc EXCEPT ![t] = IF Len(cache) >= max_size THEN "s_min" ELSE "s_put"]
    /\ UNCHANGED <<now, pool, appvars, analyzervars, cacheconfig, cache, cachestats, call, cache_key, oldest_key,
                   cached, ctmp, cret, get_calls>>

\* line 105: min() of an empty dict raises ValueError
SetMin(t) ==
    /\ cpc[t] = "s_min"
    /\ IF cache # <<>>
       THEN /\ oldest_key' = [oldest_key EXCEPT ![t] = OldestKey(cache)]
            /\ cpc' = [cpc EXCEPT ![t] = "s_del"]
            /\ UNCHANGED <<call, cache_key, cret>>
       ELSE /\ Return(t, Outcome("ValueError", 0))
            /\ UNCHANGED oldest_key
    /\ UNCHANGED <<now, pool, appvars, analyzervars, cacheconfig, cache, cachestats, cached, ctmp,
                   get_calls>>

\* line 106: del self.cache[oldest_key]; KeyError when the key is gone
SetDel(t) ==
    /\ cpc[t] = "s_del"
    /\ oldest_key' = [oldest_key EXCEPT ![t] = NoKey]
    /\ IF oldest_key[t] \in Keys(cache)
       THEN /\ cache' = Del(cache, oldest_key[t])
            /\ cpc' = [cpc EXCEPT ![t] = "s_evict"]
            /\ UNCHANGED <<call, cache_key, cret>>
       ELSE /\ Return(t, Outcome("KeyError", 0))
            /\ UNCHANGED cache
    /\ UNCHANGED <<now, pool, appvars, analyzervars, cacheconfig, cachestats, cached, ctmp,
                   get_calls>>

\* line 107, load half of self.evictions += 1
SetEvictLoad(t) ==
    /\ cpc[t] = "s_evict"
    /\ ctmp' = [ctmp EXCEPT ![t] = evictions]
    /\ cpc' = [cpc EXCEPT ![t] = "s_evict_store"]
    /\ UNCHANGED <<now, pool, appvars, analyzervars, cacheconfig, cache, cachestats, call, cache_key, oldest_key,
                   cached, cret, get_calls>>

\* line 107, store half
SetEvictStore(t) ==
    /\ cpc[t] = "s_evict_store"
    /\ evictions' = ctmp[t] + 1
    /\ ctmp' = [ctmp EXCEPT ![t] = 0]
    /\ cpc' = [cpc EXCEPT ![t] = "s_put"]
    /\ UNCHANGED <<now, pool, appvars, analyzervars, cacheconfig, cache, hits, misses, call, cache_key, oldest_key,
                   cached, cret, get_calls>>

\* line 111: self.cache[cache_key] = (time.time(), result)
SetPut(t) ==
    /\ cpc[t] = "s_put"
    /\ cache' = Store(cache, cache_key[t], now, call[t].result)
    /\ Return(t, Outcome("done", 0))
    /\ UNCHANGED <<now, pool, appvars, analyzervars, cacheconfig, cachestats, oldest_key, cached,
                   ctmp, get_calls>>

\* --------------------------------------------------- QueryCache.invalidate
\* the arguments of invalidate: those of get and set, and no query at all
InvalidateArgs == CacheArgs \cup {[query |-> NoQuery, params |-> NoParams]}

\* line 122: if query
CacheInvalidate(t, a) ==
    /\ CacheIdle(t)
    /\ call' = [call EXCEPT ![t] = [op |-> "invalidate", query |-> a.query,
                                    params |-> a.params, result |-> 0,
                                    present |-> Present(a)]]
    /\ cret' = [cret EXCEPT ![t] = NoOutcome]
    /\ IF QueryTruthy(a.query)
       THEN /\ cache_key' = [cache_key EXCEPT ![t] = _generate_key(a.query, a.params)]
            /\ cpc' = [cpc EXCEPT ![t] = "i_in"]
       ELSE /\ cache_key' = [cache_key EXCEPT ![t] = NoKey]
            /\ cpc' = [cpc EXCEPT ![t] = "i_clear"]
    /\ UNCHANGED <<now, pool, appvars, analyzervars, cacheconfig, cache, cachestats, oldest_key, cached, ctmp,
                   get_calls>>

\* line 124: if cache_key in self.cache
InvalidateIn(t) ==
    /\ cpc[t] = "i_in"
    /\ IF cache_key[t] \in Keys(cache)
       THEN /\ cpc' = [cpc EXCEPT ![t] = "i_del"]
            /\ UNCHANGED <<call, cache_key, cret>>
       ELSE Return(t, Outcome("done", 0))
    /\ UNCHANGED <<now, pool, appvars, analyzervars, cacheconfig, cache, cachestats, oldest_key,
                   cached, ctmp, get_calls>>

\* line 125: del self.cache[cache_key]; KeyError when the key is gone
InvalidateDel(t) ==
    /\ cpc[t] = "i_del"
    /\ IF cache_key[t] \in Keys(cache)
       THEN /\ cache' = Del(cache, cache_key[t])
            /\ Return(t, Outcome("done", 0))
       ELSE /\ Return(t, Outcome("KeyError", 0))
            /\ UNCHANGED cache
    /\ UNCHANGED <<now, pool, appvars, analyzervars, cacheconfig, cachestats, oldest_key, cached,
                   ctmp, get_calls>>

\* line 129: self.cache.clear()
InvalidateClear(t) ==
    /\ cpc[t] = "i_clear"
    /\ cache' = Clear(cache)
    /\ Return(t, Outcome("done", 0))
    /\ UNCHANGED <<now, pool, appvars, analyzervars, cacheconfig, cachestats, oldest_key, cached,
                   ctmp, get_calls>>

\* -------------------------------------------------------- QueryCache.clear
\* line 150: self.cache.clear()
CacheClear(t) ==
    /\ CacheIdle(t)
    /\ call' = [call EXCEPT ![t] = [op |-> "clear", query |-> NoQuery, params |-> NoParams,
                                    result |-> 0, present |-> FALSE]]
    /\ cache_key' = [cache_key EXCEPT ![t] = NoKey]
    /\ cret' = [cret EXCEPT ![t] = NoOutcome]
    /\ cache' = Clear(cache)
    /\ cpc' = [cpc EXCEPT ![t] = "c_hits"]
    /\ UNCHANGED <<now, pool, appvars, analyzervars, cacheconfig, cachestats, oldest_key, cached, ctmp, get_calls>>

\* line 151: self.hits = 0
ClearHits(t) ==
    /\ cpc[t] = "c_hits"
    /\ hits' = 0
    /\ cpc' = [cpc EXCEPT ![t] = "c_misses"]
    /\ UNCHANGED <<now, pool, appvars, analyzervars, cacheconfig, cache, misses, evictions, call, cache_key,
                   oldest_key, cached, ctmp, cret, get_calls>>

\* line 152: self.misses = 0
ClearMisses(t) ==
    /\ cpc[t] = "c_misses"
    /\ misses' = 0
    /\ cpc' = [cpc EXCEPT ![t] = "c_evictions"]
    /\ UNCHANGED <<now, pool, appvars, analyzervars, cacheconfig, cache, hits, evictions, call, cache_key,
                   oldest_key, cached, ctmp, cret, get_calls>>

\* line 153: self.evictions = 0
ClearEvictions(t) ==
    /\ cpc[t] = "c_evictions"
    /\ evictions' = 0
    /\ get_calls' = 0
    /\ Return(t, Outcome("done", 0))
    /\ UNCHANGED <<now, pool, appvars, analyzervars, cacheconfig, cache, hits, misses, oldest_key, cached, ctmp>>

\* ------------------------------------------------ QueryCache._generate_key
Chars == {"a", "A", " "}
ParamValues == {1, 2}

SeqsUpTo(S, n) == UNION {[1..m -> S] : m \in 0..n}

KeyQueries == {Query(txt) : txt \in SeqsUpTo(Chars, MaxLen)}
KeyParams ==
    {NoParams} \cup {List(xs) : xs \in SeqsUpTo(ParamValues, MaxParams)}
               \cup {Tuple(xs) : xs \in SeqsUpTo(ParamValues, MaxParams)}

\* a call of _generate_key by itself: lines 50-57
GenerateKey(t, q, p) ==
    /\ CacheIdle(t)
    /\ call' = [call EXCEPT ![t] = [op |-> "key", query |-> q, params |-> p, result |-> 0,
                                    present |-> FALSE]]
    /\ cache_key' = [cache_key EXCEPT ![t] = _generate_key(q, p)]
    /\ cret' = [cret EXCEPT ![t] = NoOutcome]
    /\ cpc' = [cpc EXCEPT ![t] = "k_return"]
    /\ UNCHANGED <<now, pool, appvars, analyzervars, cacheconfig, cache, cachestats, oldest_key, cached, ctmp,
                   get_calls>>

\* line 59: return cache_key
KeyReturn(t) ==
    /\ cpc[t] = "k_return"
    /\ Return(t, Outcome("done", 0))
    /\ UNCHANGED <<now, pool, appvars, analyzervars, cacheconfig, cache, cachestats, oldest_key, cached, ctmp,
                   get_calls>>

\* the steps of a QueryCache call that is under way
GetCacheStep(t) ==
    \/ GetIn(t)
    \/ GetRead(t)
    \/ GetTime(t)
    \/ GetHitStore(t)
    \/ GetDel(t)
    \/ GetMissLoad(t)
    \/ GetMissStore(t)

SetStep(t) ==
    \/ SetLen(t)
    \/ SetMin(t)
    \/ SetDel(t)
    \/ SetEvictLoad(t)
    \/ SetEvictStore(t)
    \/ SetPut(t)

InvalidateStep(t) ==
    \/ InvalidateIn(t)
    \/ InvalidateDel(t)
    \/ InvalidateClear(t)

ClearStep(t) ==
    \/ ClearHits(t)
    \/ ClearMisses(t)
    \/ ClearEvictions(t)

\* ------------------------------------------------------ QueryAnalyzer calls
\* the caller is in no call of the pool, the cache or the analyzer
AnalyzerIdle(t) == CacheIdle(t) /\ qpc[t] = "idle"

\* the connection was closed: every execute on it raises
ConnClosed(c) == c # OutsideConn /\ handles[c].closed

\* the call returns or raises: its arguments and locals go out of scope
QReturn(t, outcome) ==
    /\ qret' = [qret EXCEPT ![t] = outcome]
    /\ qpc' = [qpc EXCEPT ![t] = "idle"]
    /\ qcall' = [qcall EXCEPT ![t] = NoQCall]
    /\ qloc' = [qloc EXCEPT ![t] = NoLocals]

\* the query and params the analysis under way is about
CurrentQuery(t) == IF qloc[t].stage = 2 THEN qcall[t].query2 ELSE qcall[t].query
CurrentParams(t) == IF qloc[t].stage = 2 THEN qcall[t].params2 ELSE qcall[t].params

\* line 45: start_time = time.time()
AnalyzeQuery(t, c, a) ==
    /\ AnalyzerIdle(t)
    /\ Len(query_history) < MaxHistory
    /\ qcall' = [qcall EXCEPT ![t] = [op |-> "analyze", conn |-> c, query |-> a.query,
                                      params |-> a.params, query2 |-> NoQuery,
                                      params2 |-> NoParams, seen |-> Seen]]
    /\ qloc' = [qloc EXCEPT ![t] = [NoLocals EXCEPT !.start_time = now]]
    /\ qret' = [qret EXCEPT ![t] = NoQOutcome]
    /\ qpc' = [qpc EXCEPT ![t] = "a_exec"]
    /\ UNCHANGED <<now, pool, cachevars, appvars, analyzerstate>>

\* line 47 under way: the query takes its time, MaxExec seconds at most
Elapse(t) ==
    /\ qpc[t] = "a_exec"
    /\ now - qloc[t].start_time < MaxExec
    /\ now < ClockEnd
    /\ now' = now + 1
    /\ UNCHANGED <<pool, cachevars, appvars, analyzervars>>

\* lines 47-50: the query gives its results; execution_time = time.time() - start_time
ExecuteOk(t) ==
    /\ qpc[t] = "a_exec"
    /\ ~ConnClosed(qcall[t].conn)
    /\ \E r \in Results :
          qloc' = [qloc EXCEPT ![t].results = r,
                               ![t].execution_time = now - qloc[t].start_time]
    /\ qpc' = [qpc EXCEPT ![t] = "a_plan"]
    /\ UNCHANGED <<now, pool, cachevars, appvars, analyzerstate, qcall, qret>>

\* faulty variant of ExecuteFails: the failed query is recorded before the exception
\* leaves
ExecuteFailsRecorded(t) ==
    /\ qpc[t] = "a_exec"
    /\ query_history' = Append(query_history,
                               Analysis(CurrentQuery(t), CurrentParams(t), 0, 1, <<>>))
    /\ QReturn(t, QOutcome("raised", EngineError))
    /\ UNCHANGED <<now, pool, cachevars, appvars, slow_query_threshold, slow_queries>>

\* line 47 raises: the exception leaves analyze_query, and compare_queries with it
ExecuteFails(t) ==
    /\ qpc[t] = "a_exec"
    /\ QReturn(t, QOutcome("raised", EngineError))
    /\ UNCHANGED <<now, pool, cachevars, appvars, analyzerstate>>

\* lines 55-56
PlanOk(t) ==
    /\ qpc[t] = "a_plan"
    /\ ~ConnClosed(qcall[t].conn)
    /\ qloc' = [qloc EXCEPT ![t].query_plan = EnginePlan]
    /\ qpc' = [qpc EXCEPT ![t] = "a_record"]
    /\ UNCHANGED <<now, pool, cachevars, appvars, analyzerstate, qcall, qret>>

\* faulty variant of PlanFails: the exception of the plan query leaves the call
PlanFailsRaises(t) ==
    /\ qpc[t] = "a_plan"
    /\ QReturn(t, QOutcome("raised", EngineError))
    /\ UNCHANGED <<now, pool, cachevars, appvars, analyzerstate>>

\* lines 57-58: except: query_plan = []
PlanFails(t) ==
    /\ qpc[t] = "a_plan"
    /\ qloc' = [qloc EXCEPT ![t].query_plan = <<>>]
    /\ qpc' = [qpc EXCEPT ![t] = "a_record"]
    /\ UNCHANGED <<now, pool, cachevars, appvars, analyzerstate, qcall, qret>>

\* lines 61-75: build the analysis, append it to query_history, test is_slow
AnalyzeRecord(t) ==
    /\ qpc[t] = "a_record"
    /\ LET analysis == Analysis(CurrentQuery(t), CurrentParams(t), qloc[t].execution_time,
                                qloc[t].results, qloc[t].query_plan)
       IN /\ qloc' = [qloc EXCEPT ![t].analysis = analysis]
          /\ query_history' = HistoryAppend(query_history, analysis)
          /\ qpc' = [qpc EXCEPT ![t] = IF analysis.is_slow THEN "a_slow" ELSE "a_return"]
    /\ UNCHANGED <<now, pool, cachevars, appvars, slow_query_threshold, slow_queries,
                   qcall, qret>>

\* line 76
AnalyzeSlow(t) ==
    /\ qpc[t] = "a_slow"
    /\ slow_queries' = Append(slow_queries, qloc[t].analysis)
    /\ qpc' = [qpc EXCEPT ![t] = "a_return"]
    /\ UNCHANGED <<now, pool, cachevars, appvars, slow_query_threshold, query_history,
                   qcall, qloc, qret>>

\* lines 79-82, to the caller of analyze_query
AnalyzeReturn(t) ==
    /\ qpc[t] = "a_return"
    /\ qcall[t].op = "analyze"
    /\ QReturn(t, QOutcome("result", AnalyzeResult(qloc[t].results, qloc[t].analysis)))
    /\ UNCHANGED <<now, pool, cachevars, appvars, analyzerstate>>

\* line 151: compare_queries calls analyze_query on query1
CompareQueries(t, c, a1, a2) ==
    /\ AnalyzerIdle(t)
    /\ Len(query_history) + 2 <= MaxHistory
    /\ qcall' = [qcall EXCEPT ![t] = [op |-> "compare", conn |-> c, query |-> a1.query,
                                      params |-> a1.params, query2 |-> a2.query,
                                      params2 |-> a2.params, seen |-> Seen]]
    /\ qloc' = [qloc EXCEPT ![t] = [NoLocals EXCEPT !.start_time = now]]
    /\ qret' = [qret EXCEPT ![t] = NoQOutcome]
    /\ qpc' = [qpc EXCEPT ![t] = "a_exec"]
    /\ UNCHANGED <<now, pool, cachevars, appvars, analyzerstate>>

\* line 151 returns into result1; line 154 calls analyze_query on query2
CompareSecond(t) ==
    /\ qpc[t] = "a_return"
    /\ qcall[t].op = "compare"
    /\ qloc[t].stage = 1
    /\ qloc' = [qloc EXCEPT ![t] =
                  [NoLocals EXCEPT !.result1 = AnalyzeResult(qloc[t].results,
                                                             qloc[t].analysis),
                                   !.stage = 2,
                                   !.start_time = now]]
    /\ qpc' = [qpc EXCEPT ![t] = "a_exec"]
    /\ UNCHANGED <<now, pool, cachevars, appvars, analyzerstate, qcall, qret>>

\* line 154 returns into result2; lines 157-175
CompareReturn(t) ==
    /\ qpc[t] = "a_return"
    /\ qcall[t].op = "compare"
    /\ qloc[t].stage = 2
    /\ QReturn(t, QOutcome("comparison",
                           Comparison(qcall[t].query, qcall[t].query2, qloc[t].result1,
                                      AnalyzeResult(qloc[t].results, qloc[t].analysis))))
    /\ UNCHANGED <<now, pool, cachevars, appvars, analyzerstate>>

\* line 122
ExplainQuery(t, c, a) ==
    /\ AnalyzerIdle(t)
    /\ qcall' = [qcall EXCEPT ![t] = [op |-> "explain", conn |-> c, query |-> a.query,
                                      params |-> a.params, query2 |-> NoQuery,
                                      params2 |-> NoParams, seen |-> Seen]]
    /\ qloc' = [qloc EXCEPT ![t] = NoLocals]
    /\ qret' = [qret EXCEPT ![t] = NoQOutcome]
    /\ qpc' = [qpc EXCEPT ![t] = "e_exec"]
    /\ UNCHANGED <<now, pool, cachevars, appvars, analyzerstate>>

\* lines 125-131
ExplainOk(t) ==
    /\ qpc[t] = "e_exec"
    /\ ~ConnClosed(qcall[t].conn)
    /\ QReturn(t, QOutcome("plan", [query |-> qcall[t].query, plan |-> EnginePlan]))
    /\ UNCHANGED <<now, pool, cachevars, appvars, analyzerstate>>

\* faulty variant of ExplainFails: the exception leaves the call
ExplainFailsRaises(t) ==
    /\ qpc[t] = "e_exec"
    /\ QReturn(t, QOutcome("raised", EngineError))
    /\ UNCHANGED <<now, pool, cachevars, appvars, analyzerstate>>

\* lines 132-134: return {'error': str(e)}
ExplainFails(t) ==
    /\ qpc[t] = "e_exec"
    /\ QReturn(t, QOutcome("error", [error |-> EngineError]))
    /\ UNCHANGED <<now, pool, cachevars, appvars, analyzerstate>>

\* line 86: the list itself
GetSlowQueries(t) ==
    /\ AnalyzerIdle(t)
    /\ QReturn(t, QOutcome("list", slow_queries))
    /\ UNCHANGED <<now, pool, cachevars, appvars, analyzerstate>>

\* lines 90-108
GetQueryStats(t) ==
    /\ AnalyzerIdle(t)
    /\ QReturn(t, QOutcome("stats", Stats(query_history, slow_queries)))
    /\ UNCHANGED <<now, pool, cachevars, appvars, analyzerstate>>

\* line 179: self.query_history.clear()
ResetStats(t) ==
    /\ AnalyzerIdle(t)
    /\ qcall' = [qcall EXCEPT ![t] = [NoQCall EXCEPT !.op = "reset"]]
    /\ qloc' = [qloc EXCEPT ![t] = NoLocals]
    /\ qret' = [qret EXCEPT ![t] = NoQOutcome]
    /\ query_history' = <<>>
    /\ qpc' = [qpc EXCEPT ![t] = "r_slow"]
    /\ UNCHANGED <<now, pool, cachevars, appvars, slow_query_threshold, slow_queries>>

\* line 180: self.slow_queries.clear()
ResetSlow(t) ==
    /\ qpc[t] = "r_slow"
    /\ slow_queries' = <<>>
    /\ QReturn(t, QOutcome("done", 0))
    /\ UNCHANGED <<now, pool, cachevars, appvars, slow_query_threshold, query_history>>

\* get_query_stats next to other threads, one read of the lists per step.
\* line 90: the test of query_history, and the return of lines 91-97 when it is empty
StatsTest(t) ==
    /\ AnalyzerIdle(t)
    /\ IF query_history = <<>>
       THEN QReturn(t, QOutcome("stats", EmptyStats))
       ELSE /\ qcall' = [qcall EXCEPT ![t] = [NoQCall EXCEPT !.op = "stats"]]
            /\ qloc' = [qloc EXCEPT ![t] = NoLocals]
            /\ qret' = [qret EXCEPT ![t] = NoQOutcome]
            /\ qpc' = [qpc EXCEPT ![t] = "s_times"]
    /\ UNCHANGED <<now, pool, cachevars, appvars, analyzerstate>>

\* line 99: execution_times is read from the history as it is now
StatsTimes(t) ==
    /\ qpc[t] = "s_times"
    /\ qloc' = [qloc EXCEPT ![t].execution_times = ExecutionTimes(query_history)]
    /\ qpc' = [qpc EXCEPT ![t] = "s_build"]
    /\ UNCHANGED <<now, pool, cachevars, appvars, analyzerstate, qcall, qret>>

\* lines 101-108: the dictionary is built from the lists as they are now and from
\* execution_times; the division of line 104 raises when the history is empty, the
\* one of line 105 when execution_times is
StatsBuild(t) ==
    /\ qpc[t] = "s_build"
    /\ LET execution_times == qloc[t].execution_times IN
       IF query_history = <<>> \/ execution_times = <<>>
       THEN QReturn(t, QOutcome("raised", "ZeroDivisionError"))
       ELSE QReturn(t, QOutcome("stats",
                [total_queries |-> Len(query_history),
                 slow_queries |-> Len(slow_queries),
                 slow_query_percentage |->
                     Format(Len(slow_queries) * 100, Len(query_history), 2, "%"),
                 avg_execution_time |->
                     Format(Sum(execution_times), Len(execution_times), 4, "s"),
                 min_execution_time |-> Format(Min(execution_times), 1, 4, "s"),
                 max_execution_time |-> Format(Max(execution_times), 1, 4, "s")]))
    /\ UNCHANGED <<now, pool, cachevars, appvars, analyzerstate>>

\* the steps of an analyze_query call that is under way
AnalyzeStep(t) ==
    \/ ExecuteOk(t)
    \/ ExecuteFails(t)
    \/ PlanOk(t)
    \/ PlanFails(t)
    \/ AnalyzeRecord(t)
    \/ AnalyzeSlow(t)
    \/ AnalyzeReturn(t)

\* the steps of a QueryAnalyzer call that is under way
AnalyzerStep(t) ==
    \/ AnalyzeStep(t)
    \/ CompareSecond(t)
    \/ CompareReturn(t)
    \/ ExplainOk(t)
    \/ ExplainFails(t)
    \/ ResetSlow(t)

\* ------------------------------------------------------------------ specs
\* the steps of a get_connection call that is under way
GetStep(t) ==
    \/ StoreRequests(t)
    \/ QueueGet(t)
    \/ QueueEmpty(t)
    \/ CheckExpired(t)
    \/ StoreHits(t)
    \/ EmptyLocked(t)
    \/ LoadCreated(t)
    \/ StoreCreated(t)
    \/ LoadMisses(t)
    \/ StoreMisses(t)
    \/ MarkInUse(t)

\* concurrent threads that release exactly the handles they hold
Next ==
    \/ Tick
    \/ \E t \in Threads : GetConnection(t) \/ GetStep(t) \/ ReleaseHeld(t)

Spec == Init /\ [][Next]_vars

\* no call is under way
Quiet == \A t \in Threads : pc[t] = "idle"

\* several callers that issue their calls one at a time, with any handle as argument
\* of a release
SeqGet(t) == Quiet /\ GetConnection(t)
SeqRelease(t) == Quiet /\ ReleaseAny(t)
SeqCloseAll(t) == Quiet /\ close_all(t)

NextCallers ==
    \/ Tick
    \/ \E t \in Threads :
          SeqGet(t) \/ SeqRelease(t) \/ SeqCloseAll(t) \/ GetStep(t) \/ DrainAvailable(t)

SpecCallers == Init /\ [][NextCallers]_vars

\* a single thread: get_connection, release_connection of any handle, close_all
NextSeq ==
    \/ Tick
    \/ GetConnection(MainThread)
    \/ GetStep(MainThread)
    \/ ReleaseAny(MainThread)
    \/ close_all(MainThread)
    \/ DrainAvailable(MainThread)

SpecSeq == Init /\ [][NextSeq]_vars

\* src/tests.py 59-77: a pool with pre-created handles and one caller that gets a
\* connection and releases it before it gets the next
InitReuse ==
    /\ PoolConstructed(1..MaxPool, 1..MaxPool)
    /\ CacheConstructed({MaxTtl}, {MaxSize})
    /\ AnalyzerConstructed({MaxThreshold})
    /\ AppIdle

ReuseGet(t) == held[t] = {} /\ GetConnection(t)

\* the queue is never found empty by this caller, so the steps of lines 145-162
\* are not listed
NextReuse ==
    \/ Tick
    \/ ReuseGet(MainThread)
    \/ StoreRequests(MainThread)
    \/ QueueGet(MainThread)
    \/ CheckExpired(MainThread)
    \/ StoreHits(MainThread)
    \/ StoreCreated(MainThread)
    \/ LoadMisses(MainThread)
    \/ StoreMisses(MainThread)
    \/ MarkInUse(MainThread)
    \/ ReleaseHeld(MainThread)

\* lines 75-88: the fields before _initialize_pool runs, the constructing thread
\* about to enter it
InitBare ==
    /\ now = 0
    /\ max_connections \in 1..MaxPool
    /\ min_connections \in 0..max_connections
    /\ max_age \in 0..MaxAge
    /\ handles = <<>>
    /\ available = <<>>
    /\ in_use = <<>>
    /\ lock = NoThread
    /\ total_created = 0
    /\ total_requests = 0
    /\ total_hits = 0
    /\ total_misses = 0
    /\ pc = [t \in Threads |-> IF t = MainThread THEN "init" ELSE "idle"]
    /\ conn = [t \in Threads |-> NoConn]
    /\ tmp = [t \in Threads |-> 0]
    /\ ret = [t \in Threads |-> "none"]
    /\ held = [t \in Threads |-> {}]
    /\ requeued = NoConn
    /\ CacheConstructed({MaxTtl}, {MaxSize})
    /\ AnalyzerConstructed({MaxThreshold})
    /\ AppIdle

\* faulty variant of CreateInitial: the handle is queued but not counted
CreateInitialUncounted(t) ==
    /\ pc[t] = "init"
    /\ Len(handles) < min_connections
    /\ handles' = Append(handles, PooledConnection)
    /\ available' = Append(available, Len(handles) + 1)
    /\ UNCHANGED <<appvars, analyzervars, cachevars, now, config, in_use, lock, counters, locals, requeued>>

\* lines 97-99, one turn of the loop: _create_connection (lines 106-107) and
\* available.put
CreateInitial(t) ==
    /\ pc[t] = "init"
    /\ Len(handles) < min_connections
    /\ handles' = Append(handles, PooledConnection)
    /\ total_created' = total_created + 1
    /\ available' = Append(available, Len(handles) + 1)
    /\ UNCHANGED <<appvars, analyzervars, cachevars, now, config, in_use, lock, total_requests, total_hits,
                   total_misses, locals, requeued>>

\* line 97: the loop has made its min_connections turns, __init__ returns
Constructed(t) ==
    /\ pc[t] = "init"
    /\ Len(handles) = min_connections
    /\ pc' = [pc EXCEPT ![t] = "idle"]
    /\ UNCHANGED <<appvars, analyzervars, cachevars, now, config, poolvars, counters, conn, tmp, ret, held,
                   requeued>>

\* the constructor, then one caller using the pool it built
NextConstruct ==
    \/ Tick
    \/ CreateInitial(MainThread)
    \/ Constructed(MainThread)
    \/ GetConnection(MainThread)
    \/ GetStep(MainThread)
    \/ ReleaseHeld(MainThread)

SpecConstruct == InitBare /\ [][NextConstruct]_vars

SpecReuse == InitReuse /\ [][NextReuse]_vars

\* src/tests.py 233-258: one caller that gets connections, reads the statistics
\* and releases the connections it holds
NextStats ==
    \/ Tick
    \/ GetConnection(MainThread)
    \/ GetStep(MainThread)
    \/ ReleaseHeld(MainThread)
    \/ GetStats(MainThread)

SpecStats == Init /\ [][NextStats]_vars

\* get_connection calls under way
InCall == {t \in Threads : pc[t] \notin {"idle", "drain"}}

\* a call is started only while every call under way can still build its handle
LiveGet(t) ==
    /\ Len(handles) + Cardinality(InCall) < MaxHandles
    /\ total_requests < MaxLiveRequests
    /\ GetConnection(t)

\* concurrent threads that acquire, release anything and close the pool
NextLive ==
    \/ Tick
    \/ \E t \in Threads :
         \/ LiveGet(t)
         \/ GetStep(t)
         \/ ReleaseAny(t)
         \/ close_all(t)
         \/ DrainAvailable(t)

\* fair scheduling: a thread inside a call keeps running (the wait of line 126 ends
\* with an item or with the timeout), a thread that asks for the lock gets it when
\* the lock is free again and again, and close_all finishes its loop; nothing makes
\* a caller start a call, release a handle or close the pool
Fairness ==
    \A t \in Threads :
        /\ WF_vars(GetStep(t))
        /\ SF_vars(MarkInUse(t) \/ EmptyLocked(t))
        /\ WF_vars(DrainAvailable(t))

SpecLive == Init /\ [][NextLive]_vars /\ Fairness

\* the same threads, which also read the statistics
NextLock ==
    \/ NextLive
    \/ \E t \in Threads : GetStats(t)

SpecLock == Init /\ [][NextLock]_vars /\ Fairness

\* one thread calling the cache, one call at a time
NextCacheSeq ==
    \/ Tick
    \/ \E a \in CacheArgs : CacheGet(MainThread, a)
    \/ \E a \in CacheArgs : \E v \in Results : CacheSet(MainThread, a, v)
    \/ \E a \in InvalidateArgs : CacheInvalidate(MainThread, a)
    \/ CacheClear(MainThread)
    \/ GetCacheStep(MainThread)
    \/ SetStep(MainThread)
    \/ InvalidateStep(MainThread)
    \/ ClearStep(MainThread)

SpecCacheSeq == InitCache /\ [][NextCacheSeq]_vars

\* the arguments of the concurrent calls: two spellings of one key, and another key
SharedArgs == {a \in CacheArgs : a.params.items = <<>> /\ a.query.text # <<>>}

\* concurrent threads calling set on one shared cache
NextCacheSets ==
    \/ Tick
    \/ \E t \in Threads :
         \/ \E a \in SharedArgs : \E v \in Results : CacheSet(t, a, v)
         \/ SetStep(t)

SpecCacheSets == InitCache /\ [][NextCacheSets]_vars

\* the arguments of the sets made between the key computations
FillArgs == [query |-> Query(<<"a">>), params |-> NoParams]

\* one thread computing keys, at any time and between sets of one entry
NextKey ==
    \/ Tick
    \/ \E q \in KeyQueries : \E p \in KeyParams : GenerateKey(MainThread, q, p)
    \/ KeyReturn(MainThread)
    \/ CacheSet(MainThread, FillArgs, NumResults)
    \/ SetLen(MainThread)
    \/ SetPut(MainThread)

\* one pool and one cache, which the sets of one key never fill
InitKey ==
    /\ PoolConstructed({0}, {1})
    /\ CacheConstructed({MaxTtl}, {MaxSize})
    /\ AnalyzerConstructed({MaxThreshold})
    /\ AppIdle

SpecKey == InitKey /\ [][NextKey]_vars

\* concurrent threads calling get, set, invalidate and clear on one shared cache,
\* all with the same query; the cache is never full, so set has no eviction steps;
\* a get is started while the counters, and the values loaded for a pending
\* `+= 1`, are below MaxGets (a clear running next to a get can leave the counters
\* above what get_calls counts)
NextCacheAll ==
    \/ Tick
    \/ \E t \in Threads :
         \/ /\ hits + misses < MaxGets
            /\ \A u \in Threads : ctmp[u] < MaxGets
            /\ CacheGet(t, FillArgs)
         \/ \E v \in Results : CacheSet(t, FillArgs, v)
         \/ \E a \in {FillArgs, [query |-> NoQuery, params |-> NoParams]} :
               CacheInvalidate(t, a)
         \/ CacheClear(t)
         \/ GetCacheStep(t)
         \/ SetLen(t)
         \/ SetPut(t)
         \/ InvalidateStep(t)
         \/ ClearStep(t)

SpecCacheAll == InitKey /\ [][NextCacheAll]_vars

\* every analyzer configuration, next to one unused pool and one unused cache
InitAnalyzer ==
    /\ PoolConstructed({0}, {1})
    /\ CacheConstructed({MaxTtl}, {MaxSize})
    /\ AnalyzerConstructed(0..MaxThreshold)
    /\ AppIdle

\* one thread calling the analyzer with a connection of its own, one call at a time
NextAnalyzer ==
    \/ Tick
    \/ \E a \in AnalyzerArgs : AnalyzeQuery(MainThread, OutsideConn, a)
    \/ \E a1 \in AnalyzerArgs : \E a2 \in AnalyzerArgs :
          CompareQueries(MainThread, OutsideConn, a1, a2)
    \/ \E a \in AnalyzerArgs : ExplainQuery(MainThread, OutsideConn, a)
    \/ GetSlowQueries(MainThread)
    \/ GetQueryStats(MainThread)
    \/ ResetStats(MainThread)
    \/ AnalyzerStep(MainThread)
    \/ Elapse(MainThread)

SpecAnalyzer == InitAnalyzer /\ [][NextAnalyzer]_vars

\* an analyzer whose threshold every executed query exceeds once time has passed
InitAnalyzerAll ==
    /\ PoolConstructed({0}, {1})
    /\ CacheConstructed({MaxTtl}, {MaxSize})
    /\ AnalyzerConstructed({0})
    /\ AppIdle

\* the argument of the analyze_query calls made next to other threads
AnalyzedArgs == [query |-> Query(<<"a">>), params |-> NoParams]

\* one thread calling analyze_query with a connection of its own, the others
\* get_query_stats, and every thread reset_stats, on one analyzer with no lock
NextAnalyzerAll ==
    \/ Tick
    \/ AnalyzeQuery(MainThread, OutsideConn, AnalyzedArgs)
    \/ Elapse(MainThread)
    \/ AnalyzeStep(MainThread)
    \/ \E t \in Threads \ {MainThread} :
         \/ StatsTest(t)
         \/ StatsTimes(t)
         \/ StatsBuild(t)
    \/ \E t \in Threads :
         \/ ResetStats(t)
         \/ ResetSlow(t)

SpecAnalyzerAll == InitAnalyzerAll /\ [][NextAnalyzerAll]_vars

\* --------------------------------------------------------- request handlers
\* lines 66-74 and 116-121: the query and params of a request, without and with its
\* filter argument
RequestArgs == AnalyzerArgs

\* a handler starts: its locals are fresh, no call of it has returned yet
Request(t, handler, a, first) ==
    /\ apc[t] = "idle"
    /\ AnalyzerIdle(t)
    /\ areq' = [areq EXCEPT ![t] = [handler |-> handler, query |-> a.query,
                                    params |-> a.params]]
    /\ aconn' = [aconn EXCEPT ![t] = NoConn]
    /\ aresult' = [aresult EXCEPT ![t] = 0]
    /\ aresp' = [aresp EXCEPT ![t] = NoResponse]
    /\ apc' = [apc EXCEPT ![t] = first]
    /\ cret' = [cret EXCEPT ![t] = NoOutcome]
    /\ ret' = [ret EXCEPT ![t] = "none"]
    /\ qret' = [qret EXCEPT ![t] = NoQOutcome]
    /\ UNCHANGED <<now, config, poolvars, counters, pc, conn, tmp, held, requeued,
                   cacheconfig, cache, cachestats, cpc, call, cache_key, oldest_key,
                   cached, ctmp, get_calls, analyzerstate, qpc, qcall, qloc>>

\* get_users, lines 66-74
UsersRequest(t, a) == Request(t, "users", a, "probe")

\* get_orders, line 111
OrdersRequest(t, a) == Request(t, "orders", a, "acquire")

\* line 77: cache.get(query, params) is called
UsersProbe(t) ==
    /\ apc[t] = "probe"
    /\ cret[t] = NoOutcome
    /\ CacheGet(t, [query |-> areq[t].query, params |-> areq[t].params])

\* faulty variant of UsersProbed: a cached result does not end the handler
UsersProbedOn(t) ==
    /\ apc[t] = "probe"
    /\ cpc[t] = "idle"
    /\ cret[t] # NoOutcome
    /\ IF cret[t].kind \in {"value", "absent"}
       THEN /\ apc' = [apc EXCEPT ![t] = "acquire"]
            /\ UNCHANGED <<aresult, aresp>>
       ELSE /\ aresp' = [aresp EXCEPT ![t] = Response(cret[t].kind, 0, FALSE)]
            /\ apc' = [apc EXCEPT ![t] = "idle"]
            /\ UNCHANGED aresult
    /\ cret' = [cret EXCEPT ![t] = NoOutcome]
    /\ UNCHANGED <<now, pool, cacheconfig, cache, cachestats, cpc, call, cache_key,
                   oldest_key, cached, ctmp, get_calls, analyzervars, areq, aconn>>

\* lines 77-85: cached_result is assigned; when it is not None the handler returns it
UsersProbed(t) ==
    /\ apc[t] = "probe"
    /\ cpc[t] = "idle"
    /\ cret[t] # NoOutcome
    /\ IF cret[t].kind = "value"
       THEN /\ aresult' = [aresult EXCEPT ![t] = cret[t].value]
            /\ aresp' = [aresp EXCEPT ![t] = Response("success", cret[t].value, TRUE)]
            /\ apc' = [apc EXCEPT ![t] = "idle"]
       ELSE IF cret[t].kind = "absent"
       THEN /\ apc' = [apc EXCEPT ![t] = "acquire"]
            /\ UNCHANGED <<aresult, aresp>>
       ELSE /\ aresp' = [aresp EXCEPT ![t] = Response(cret[t].kind, 0, FALSE)]
            /\ apc' = [apc EXCEPT ![t] = "idle"]
            /\ UNCHANGED aresult
    /\ cret' = [cret EXCEPT ![t] = NoOutcome]
    /\ UNCHANGED <<now, pool, cacheconfig, cache, cachestats, cpc, call, cache_key,
                   oldest_key, cached, ctmp, get_calls, analyzervars, areq, aconn>>

\* lines 88 and 113: pool.get_connection() is called
HandlerAcquire(t) ==
    /\ apc[t] = "acquire"
    /\ ret[t] = "none"
    /\ AnalyzerIdle(t)
    /\ total_requests < MaxLiveRequests
    /\ GetConnection(t)

\* lines 88 and 113: conn is assigned, or TimeoutError leaves the handler
HandlerAcquired(t) ==
    /\ apc[t] = "acquire"
    /\ pc[t] = "idle"
    /\ ret[t] # "none"
    /\ IF ret[t] = "conn"
       THEN /\ aconn' = [aconn EXCEPT ![t] = CHOOSE h \in held[t] : TRUE]
            /\ apc' = [apc EXCEPT ![t] = "analyze"]
            /\ UNCHANGED aresp
       ELSE /\ aresp' = [aresp EXCEPT ![t] = Response(ret[t], 0, FALSE)]
            /\ apc' = [apc EXCEPT ![t] = "idle"]
            /\ UNCHANGED aconn
    /\ ret' = [ret EXCEPT ![t] = "none"]
    /\ UNCHANGED <<now, config, poolvars, counters, pc, conn, tmp, held, requeued,
                   cachevars, analyzervars, areq, aresult>>

\* lines 91 and 123: analyzer.analyze_query(conn.connection, query, params) is called
HandlerAnalyze(t) ==
    /\ apc[t] = "analyze"
    /\ qret[t] = NoQOutcome
    /\ AnalyzeQuery(t, aconn[t], [query |-> areq[t].query, params |-> areq[t].params])

\* faulty variant of HandlerAnalyzed: no finally block, an exception of
\* analyze_query leaves the handler at once
HandlerAnalyzedLeak(t) ==
    /\ apc[t] = "analyze"
    /\ qpc[t] = "idle"
    /\ qret[t] # NoQOutcome
    /\ IF qret[t].kind = "result"
       THEN /\ aresult' = [aresult EXCEPT ![t] = qret[t].value.results]
            /\ IF areq[t].handler = "users"
               THEN /\ apc' = [apc EXCEPT ![t] = "set"]
                    /\ UNCHANGED aresp
               ELSE /\ apc' = [apc EXCEPT ![t] = "release"]
                    /\ aresp' = [aresp EXCEPT ![t] =
                                   Response("success", qret[t].value.results, FALSE)]
       ELSE /\ aresp' = [aresp EXCEPT ![t] = Response(qret[t].value, 0, FALSE)]
            /\ apc' = [apc EXCEPT ![t] = "idle"]
            /\ UNCHANGED aresult
    /\ qret' = [qret EXCEPT ![t] = NoQOutcome]
    /\ UNCHANGED <<now, pool, cachevars, analyzerstate, qpc, qcall, qloc, areq, aconn>>

\* lines 91-92 and 123-130: result is assigned; get_users goes on to cache.set,
\* get_orders builds its response; an exception goes to the finally block
HandlerAnalyzed(t) ==
    /\ apc[t] = "analyze"
    /\ qpc[t] = "idle"
    /\ qret[t] # NoQOutcome
    /\ IF qret[t].kind = "result"
       THEN /\ aresult' = [aresult EXCEPT ![t] = qret[t].value.results]
            /\ IF areq[t].handler = "users"
               THEN /\ apc' = [apc EXCEPT ![t] = "set"]
                    /\ UNCHANGED aresp
               ELSE /\ apc' = [apc EXCEPT ![t] = "release"]
                    /\ aresp' = [aresp EXCEPT ![t] =
                                   Response("success", qret[t].value.results, FALSE)]
       ELSE /\ aresp' = [aresp EXCEPT ![t] = Response(qret[t].value, 0, FALSE)]
            /\ apc' = [apc EXCEPT ![t] = "release"]
            /\ UNCHANGED aresult
    /\ qret' = [qret EXCEPT ![t] = NoQOutcome]
    /\ UNCHANGED <<now, pool, cachevars, analyzerstate, qpc, qcall, qloc, areq, aconn>>

\* line 95: cache.set(query, params, users) is called
UsersSet(t) ==
    /\ apc[t] = "set"
    /\ cret[t] = NoOutcome
    /\ qpc[t] = "idle"
    /\ CacheSet(t, [query |-> areq[t].query, params |-> areq[t].params], aresult[t])

\* lines 97-103: the response is built from users; an exception of cache.set goes to
\* the finally block
UsersSetDone(t) ==
    /\ apc[t] = "set"
    /\ cpc[t] = "idle"
    /\ cret[t] # NoOutcome
    /\ aresp' = [aresp EXCEPT ![t] = IF cret[t].kind = "done"
                                     THEN Response("success", aresult[t], FALSE)
                                     ELSE Response(cret[t].kind, 0, FALSE)]
    /\ apc' = [apc EXCEPT ![t] = "release"]
    /\ cret' = [cret EXCEPT ![t] = NoOutcome]
    /\ UNCHANGED <<now, pool, cacheconfig, cache, cachestats, cpc, call, cache_key,
                   oldest_key, cached, ctmp, get_calls, analyzervars, areq, aconn, aresult>>

\* lines 105 and 132: finally: pool.release_connection(conn)
HandlerRelease(t) ==
    /\ apc[t] = "release"
    /\ aconn[t] \in held[t]
    /\ CacheIdle(t)
    /\ qpc[t] = "idle"
    /\ release_connection(t, aconn[t])

\* the response, or the exception, leaves the handler
HandlerDone(t) ==
    /\ apc[t] = "release"
    /\ aconn[t] \notin held[t]
    /\ apc' = [apc EXCEPT ![t] = "idle"]
    /\ aconn' = [aconn EXCEPT ![t] = NoConn]
    /\ UNCHANGED <<now, pool, cachevars, analyzervars, areq, aresult, aresp>>

\* the steps of a request that is under way
HandlerStep(t) ==
    \/ UsersProbe(t)
    \/ UsersProbed(t)
    \/ HandlerAcquire(t)
    \/ HandlerAcquired(t)
    \/ HandlerAnalyze(t)
    \/ HandlerAnalyzed(t)
    \/ UsersSet(t)
    \/ UsersSetDone(t)
    \/ HandlerRelease(t)
    \/ HandlerDone(t)

\* the steps of the calls a handler makes
CallStep(t) ==
    \/ GetCacheStep(t)
    \/ GetStep(t)
    \/ AnalyzeStep(t)
    \/ SetStep(t)

\* the components as src/api/app.py builds them, scaled down: a pool with
\* min_connections <= max_connections, a cache that holds at least one entry
InitApp ==
    /\ PoolConstructed(0..MaxPool, 1..MaxPool)
    /\ CacheConstructed(1..MaxTtl, 1..MaxSize)
    /\ AnalyzerConstructed(0..MaxThreshold)
    /\ AppIdle

\* one request at a time
NextAppSeq ==
    \/ Tick
    \/ \E a \in RequestArgs : UsersRequest(MainThread, a)
    \/ \E a \in RequestArgs : OrdersRequest(MainThread, a)
    \/ HandlerStep(MainThread)
    \/ CallStep(MainThread)

SpecAppSeq == InitApp /\ [][NextAppSeq]_vars

\* ----------------------------------------------------------------- claims
\* qsize(available) + len(in_use)
TrackedHandles == Len(available) + Len(in_use)

HandleIds == 1..Len(handles)

\* C1: with calls issued one at a time, after every call the pool tracks at most
\* max_connections handles.
C1_BoundAfterEveryCall == Quiet => TrackedHandles <= max_connections

C1_Witness ==
    /\ Quiet
    /\ TrackedHandles = max_connections
    /\ in_use # <<>>
    /\ available # <<>>
    /\ total_misses >= 1
    /\ \E h \in HandleIds : handles[h].closed

\* C2: under any interleaving of concurrent get_connection / release_connection calls
\* the pool never tracks more than max_connections handles.
C2_BoundConcurrent == TrackedHandles <= max_connections

\* C3: callers that release exactly what they hold never hold the same handle at the
\* same time.
C3_ExclusiveOwnership ==
    \A t \in Threads : \A u \in Threads : t # u => held[t] \cap held[u] = {}

C3_Witness ==
    /\ Len(handles) = 1
    /\ total_hits >= 2
    /\ \E t \in Threads : \E u \in Threads :
          /\ held[t] = {1}
          /\ pc[u] = "wait"

\* t is in the part of get_connection that precedes any change to the pool: counting
\* the request, waiting on the queue, or entering the Empty handler
Entering(t) == pc[t] \in {"req_store", "wait", "empty"}

\* C4: while max_connections handles are held, a get_connection call changes neither
\* collection and creates nothing, leaves its wait only by the timeout, and ends by
\* raising TimeoutError.
C4_ExhaustedFails ==
    [][\A t \in Threads :
          (Len(in_use) >= max_connections /\ Entering(t) /\ pc'[t] # pc[t]) =>
             /\ UNCHANGED <<available, in_use, total_created, handles>>
             /\ pc[t] = "req_store" => pc'[t] = "wait"
             /\ pc[t] = "wait" => pc'[t] = "empty"
             /\ pc[t] = "empty" => pc'[t] = "idle" /\ ret'[t] = "TimeoutError"]_vars

C4_Witness ==
    /\ Quiet
    /\ max_connections = 2
    /\ min_connections = 1
    /\ Len(in_use) = 2
    /\ total_requests = 3
    /\ total_created = 2
    /\ \E t \in Threads : ret[t] = "TimeoutError"

\* t's wait on the queue ends in this step
LeavesWait(t) == pc[t] = "wait" /\ pc'[t] # "wait"

\* t's expiry check of the handle it dequeued runs in this step
ChecksHandle(t) == pc[t] = "check" /\ pc'[t] # "check"

C6_ExpiredReplaced ==
    [][\A t \in Threads :
          /\ ChecksHandle(t) =>
                IF now - handles[conn[t]].created_at > max_age
                THEN /\ handles' = Append([handles EXCEPT ![conn[t]].closed = TRUE],
                                          [created_at |-> now, in_use |-> FALSE, closed |-> FALSE])
                     /\ conn'[t] = Len(handles) + 1
                     /\ pc'[t] = "created_store"
                     /\ tmp'[t] = total_created
                     /\ UNCHANGED <<available, in_use, counters>>
                ELSE /\ pc'[t] = "hit_store"
                     /\ tmp'[t] = total_hits
                     /\ UNCHANGED <<conn, handles, available, in_use, counters>>
          /\ (pc[t] = "created_store" /\ lock # t /\ pc'[t] # pc[t]) =>
                /\ total_created' = total_created + 1
                /\ pc'[t] = "miss_load"
                /\ UNCHANGED <<conn, handles, available, in_use, total_hits, total_misses>>
          /\ (pc[t] = "miss_load" /\ lock # t /\ pc'[t] # pc[t]) =>
                /\ pc'[t] = "miss_store"
                /\ tmp'[t] = total_misses
                /\ UNCHANGED <<conn, handles, available, in_use, counters>>
          /\ (pc[t] = "miss_store" /\ lock # t /\ pc'[t] # pc[t]) =>
                /\ total_misses' = total_misses + 1
                /\ pc'[t] = "mark"
                /\ UNCHANGED <<conn, handles, available, in_use, total_hits, total_created>>
          /\ (pc[t] = "hit_store" /\ pc'[t] # pc[t]) =>
                /\ total_hits' = total_hits + 1
                /\ pc'[t] = "mark"
                /\ UNCHANGED <<conn, handles, available, in_use, total_misses, total_created>>
          /\ (pc[t] = "mark" /\ pc'[t] # pc[t]) =>
                /\ ~handles[conn[t]].closed
                /\ in_use' = Append(in_use, conn[t])
                /\ held'[t] = held[t] \cup {conn[t]}
                /\ ret'[t] = "conn"
                /\ pc'[t] = "idle"
                /\ UNCHANGED <<available, counters>>]_vars

C6_Witness ==
    /\ Quiet
    /\ min_connections = 2
    /\ handles[1].closed
    /\ available = <<2>>
    /\ in_use = <<3>>
    /\ total_created = 3
    /\ total_misses = 1
    /\ total_hits = 0
    /\ \E t \in Threads : ret[t] = "conn" /\ held[t] = {3}

\* C7: a handle is created on demand only by a get_connection whose wait timed out on
\* an empty queue, and only when qsize(available) + len(in_use) < max_connections at
\* that moment; it is marked in use, appended to in_use, counted as one miss and
\* returned; otherwise the call raises TimeoutError and changes nothing.
C7_OnDemandCreation ==
    [][\A t \in Threads :
          /\ (pc[t] # "empty" /\ pc'[t] = "empty") => pc[t] = "wait" /\ available = <<>>
          /\ (pc[t] = "empty" /\ pc'[t] # "empty") =>
                IF Len(available) + Len(in_use) < max_connections
                THEN /\ handles' = Append(handles, [created_at |-> now, in_use |-> FALSE,
                                                    closed |-> FALSE])
                     /\ conn'[t] = Len(handles) + 1
                     /\ lock' = t
                     /\ pc'[t] = "created_load"
                     /\ UNCHANGED <<available, in_use, counters>>
                ELSE /\ ret'[t] = "TimeoutError"
                     /\ pc'[t] = "idle"
                     /\ UNCHANGED <<handles, available, in_use, counters, lock, held>>
          /\ (pc[t] = "created_load" /\ pc'[t] # pc[t]) =>
                /\ lock = t
                /\ pc'[t] = "created_store"
                /\ UNCHANGED <<handles, available, in_use, counters>>
          /\ (pc[t] = "created_store" /\ lock = t /\ pc'[t] # pc[t]) =>
                /\ total_created' = total_created + 1
                /\ handles' = [handles EXCEPT ![conn[t]].in_use = TRUE]
                /\ in_use' = Append(in_use, conn[t])
                /\ pc'[t] = "miss_load"
                /\ UNCHANGED <<available, total_misses, total_hits>>
          /\ (pc[t] = "miss_store" /\ lock = t /\ pc'[t] # pc[t]) =>
                /\ total_misses' = total_misses + 1
                /\ ret'[t] = "conn"
                /\ held'[t] = held[t] \cup {conn[t]}
                /\ lock' = NoThread
                /\ pc'[t] = "idle"
                /\ UNCHANGED <<handles, available, in_use, total_created, total_hits>>
          /\ (Len(handles') > Len(handles)) =>
                \E u \in Threads :
                   \/ pc[u] = "check" /\ pc'[u] = "created_store"
                   \/ pc[u] = "empty" /\ Len(available) + Len(in_use) < max_connections]_vars

C7_Witness ==
    /\ Quiet
    /\ min_connections = 0
    /\ max_connections = 2
    /\ Len(handles) = 2
    /\ in_use = <<1, 2>>
    /\ handles[1].in_use /\ handles[2].in_use
    /\ total_misses = 2
    /\ total_created = 2
    /\ total_requests = 3
    /\ \E t \in Threads : ret[t] = "TimeoutError" /\ held[t] = {1, 2}

\* C8: between pool operations a handle's in_use flag is set exactly when the handle is
\* in the in_use list.
C8_BusyIffInUse ==
    Quiet => \A h \in HandleIds : handles[h].in_use <=> h \in Elems(in_use)

\* C9: a release of a handle the caller does not hold (a second release included)
\* changes neither collection nor any handle.
C9_UnheldReleaseNoOp ==
    [][\A t \in Threads : \A h \in HandleIds :
          (h \notin held[t] /\ release_connection(t, h)) =>
             UNCHANGED <<available, in_use, handles>>]_vars

\* C10: when close_all returns, available and in_use are empty and every handle the
\* pool tracked has been closed (with calls issued one at a time every handle not
\* tracked when close_all starts was closed before, so every handle is closed).
C10_CloseAllClosesAll ==
    [][\A t \in Threads :
          (pc[t] = "drain" /\ pc'[t] = "idle") =>
             /\ available' = <<>>
             /\ in_use' = <<>>
             /\ \A h \in 1..Len(handles') : handles'[h].closed]_vars

C10_Witness ==
    /\ Quiet
    /\ min_connections = 2
    /\ Len(handles) = 2
    /\ available = <<>>
    /\ in_use = <<>>
    /\ total_misses = 0
    /\ total_hits = 1
    /\ handles[1].closed /\ handles[1].in_use
    /\ handles[2].closed /\ ~handles[2].in_use

CacheQuiet == \A t \in Threads : cpc[t] = "idle"

\* C12: with calls issued one at a time on a cache with max_size >= 1, the dict never
\* holds more than max_size entries, inside set included: when set reaches its insert
\* (line 111) after finding the cache at capacity, an entry has been removed.
C12_SizeBound ==
    max_size >= 1 =>
        /\ Len(cache) <= max_size
        /\ \A t \in Threads : cpc[t] = "s_put" => Len(cache) < max_size

\* a set found the cache full, evicted, and filled it again
C12_Witness ==
    /\ CacheQuiet
    /\ cret[MainThread].kind = "done"
    /\ max_size = MaxSize
    /\ Len(cache) = max_size
    /\ evictions >= 1

\* C13: under any interleaving of concurrent set calls each set acts as one atomic
\* section: the dict never holds more than max_size entries and no set raises.
C13_SetsAtomic ==
    max_size >= 1 =>
        /\ Len(cache) <= max_size
        /\ \A t \in Threads : cret[t].kind \notin {"KeyError", "ValueError"}

\* thread t's call ends with this step
Returns(t) == cpc[t] # "idle" /\ cpc'[t] = "idle"

\* the entries of c other than that of key k
Others(c, k) == SelectSeq(c, LAMBDA e : e.key # k)

\* C14: every get is one of three cases and counts exactly one hit or one miss.
\* Key missing at the call: absent, misses + 1, dict unchanged.  Key present and
\* now - timestamp >= ttl at the test of line 78: the entry is deleted, absent,
\* misses + 1.  Key present and now - timestamp < ttl: the stored value, hits + 1,
\* dict unchanged.  Between calls hits + misses is the number of get calls made
\* since construction or the last clear.
C14_GetCases ==
    /\ [](CacheQuiet => hits + misses = get_calls)
    /\ [][\A t \in Threads : call[t].op = "get" =>
            LET k == cache_key[t] IN
            /\ evictions' = evictions
            /\ IF Returns(t)
               THEN /\ cret'[t].kind \in {"value", "absent"}
                    /\ \/ hits' = hits + 1 /\ misses' = misses /\ cret'[t].kind = "value"
                       \/ hits' = hits /\ misses' = misses + 1 /\ cret'[t].kind = "absent"
               ELSE hits' = hits /\ misses' = misses
            /\ ~call[t].present =>
                 /\ cache' = cache
                 /\ Returns(t) => cret'[t] = Outcome("absent", 0)
            /\ (cpc[t] = "g_time" /\ cpc'[t] # "g_time") =>
                 /\ k \in Keys(cache)
                 /\ cpc'[t] = IF now - Lookup(cache, k).time < ttl
                              THEN "g_hit_store" ELSE "g_del"
            /\ (cpc[t] \in {"g_hit_store", "g_time", "g_read", "g_in"}) => cache' = cache
            /\ (cpc[t] = "g_hit_store" /\ Returns(t)) =>
                 cret'[t] = Outcome("value", Lookup(cache, k).result)
            /\ (cpc[t] = "g_del" /\ cpc'[t] # "g_del") =>
                 /\ k \in Keys(cache)
                 /\ cache' = Others(cache, k)
                 /\ Len(cache') = Len(cache) - 1
                 /\ cpc'[t] = "g_miss"
            /\ (cpc[t] \in {"g_miss", "g_miss_store"}) =>
                 /\ cache' = cache
                 /\ k \notin Keys(cache)
                 /\ Returns(t) => cret'[t] = Outcome("absent", 0)]_vars

\* a get that found its entry stale has deleted it, after an earlier get hit it
C14_Witness ==
    /\ cpc[MainThread] = "g_miss"
    /\ call[MainThread].present
    /\ cache_key[MainThread] \notin Keys(cache)
    /\ hits = 1
    /\ misses = 0

\* C15: set(q, p, v) stores (time of the set, v) under the key; the entry then stays
\* as it is until a set overwrites or evicts it, an invalidate or clear removes it,
\* or a get of that key finds it stale; a get of the key made while less than ttl has
\* passed since the set returns v, and the get that finds ttl or more has passed
\* returns absent and makes the cache one entry smaller.
C15_SetThenGet ==
    [][/\ \A j \in 1..Len(cache) :
            LET e == cache[j] IN
            \/ e.key \in Keys(cache') /\ Lookup(cache', e.key) = Lookup(cache, e.key)
            \/ \E t \in Threads :
                 \/ call[t].op = "set" /\ cpc[t] = "s_del" /\ oldest_key[t] = e.key
                 \/ call[t].op = "set" /\ cpc[t] = "s_put" /\ cache_key[t] = e.key
                 \/ call[t].op = "invalidate" /\ cache_key[t] = e.key
                 \/ call[t].op = "invalidate" /\ ~QueryTruthy(call[t].query)
                 \/ call[t].op = "none" /\ call'[t].op = "clear"
                 \/ call[t].op = "get" /\ cache_key[t] = e.key /\ now - e.time >= ttl
       /\ \A t \in Threads :
            LET k == cache_key[t] IN
            /\ (call[t].op = "set" /\ Returns(t) /\ cret'[t].kind = "done") =>
                 /\ k \in Keys(cache')
                 /\ Lookup(cache', k) = [time |-> now, result |-> call[t].result]
            /\ (call[t].op = "get" /\ cpc[t] = "g_time" /\ cpc'[t] # "g_time") =>
                 /\ cached[t] = Lookup(cache, k)
                 /\ cpc'[t] = IF now - cached[t].time < ttl THEN "g_hit_store" ELSE "g_del"
            /\ (call[t].op = "get" /\ cpc[t] = "g_hit_store" /\ Returns(t)) =>
                 /\ cret'[t] = Outcome("value", Lookup(cache, k).result)
                 /\ cache' = cache
            /\ (call[t].op = "get" /\ call[t].present /\ cpc[t] = "g_miss_store"
                  /\ Returns(t)) =>
                 /\ cret'[t] = Outcome("absent", 0)
                 /\ k \notin Keys(cache')
            /\ (call[t].op = "get" /\ cpc[t] = "g_del" /\ cpc'[t] # "g_del") =>
                 /\ Len(cache') = Len(cache) - 1
                 /\ k \notin Keys(cache')]_vars

\* a get returned the value of a set made at an earlier time, and a later get of the
\* same key is about to delete the entry as stale
C15_Witness ==
    /\ cpc[MainThread] = "g_del"
    /\ cache_key[MainThread] \in Keys(cache)
    /\ Lookup(cache, cache_key[MainThread]).result = NumResults
    /\ now - Lookup(cache, cache_key[MainThread]).time >= ttl
    /\ hits = 1

\* C16: a set of a key that is not in the cache and that finds len(cache) >= max_size
\* evicts exactly one entry, one of smallest stored timestamp, counts one eviction,
\* then inserts its key; a get never changes the timestamp of an entry.
C16_EvictsOldestThenInserts ==
    [][\A t \in Threads :
        LET k == cache_key[t] IN
        /\ (call[t].op = "set" /\ ~call[t].present) =>
             /\ (cpc[t] = "s_len" /\ cpc'[t] # "s_len" /\ Len(cache) >= max_size) =>
                  cpc'[t] = "s_min"
             /\ (cpc[t] = "s_min" /\ cpc'[t] # "s_min") =>
                  /\ cpc'[t] = "s_del"
                  /\ oldest_key'[t] \in Keys(cache)
                  /\ \A j \in 1..Len(cache) :
                       Lookup(cache, oldest_key'[t]).time <= cache[j].time
             /\ (cpc[t] = "s_del" /\ cpc'[t] # "s_del") =>
                  /\ cache' = Others(cache, oldest_key[t])
                  /\ Len(cache') = Len(cache) - 1
                  /\ cpc'[t] = "s_evict"
             /\ (cpc[t] = "s_evict_store" /\ cpc'[t] # "s_evict_store") =>
                  /\ evictions' = evictions + 1
                  /\ cpc'[t] = "s_put"
             /\ cpc[t] \notin {"s_evict_store", "idle"} => evictions' = evictions
             /\ cpc[t] \notin {"s_del", "s_put"} => cache' = cache
             /\ (cpc[t] = "s_put" /\ Returns(t)) =>
                  /\ cache' = Append(cache, [key |-> k, time |-> now,
                                             result |-> call[t].result])
                  /\ cret'[t] = Outcome("done", 0)
        /\ call[t].op = "get" =>
             \A j \in 1..Len(cache) :
                 cache[j].key \in Keys(cache') =>
                     Lookup(cache', cache[j].key) = Lookup(cache, cache[j].key)]_vars

\* C17: a set whose key is in the cache when it is called only overwrites the entry of
\* that key: evictions stays as it is and every other entry stays in the cache
\* unchanged, also when the cache holds max_size entries.
C17_OverwriteOnly ==
    [][\A t \in Threads :
        (call[t].op = "set" /\ call[t].present) =>
            /\ evictions' = evictions
            /\ \A j \in 1..Len(cache) :
                 cache[j].key # cache_key[t] =>
                     /\ cache[j].key \in Keys(cache')
                     /\ Lookup(cache', cache[j].key) = Lookup(cache, cache[j].key)]_vars

\* C18: invalidate called with a query removes the entry of key(q, p) when there is
\* one and nothing when there is none; every other entry and the three counters stay
\* as they are, and the key is absent when the call returns.
C18_InvalidateOneKey ==
    [][\A t \in Threads :
        (call[t].op = "invalidate" /\ call[t].query.given) =>
            LET k == _generate_key(call[t].query, call[t].params) IN
            /\ hits' = hits /\ misses' = misses /\ evictions' = evictions
            /\ \A j \in 1..Len(cache) :
                 cache[j].key # k =>
                     /\ cache[j].key \in Keys(cache')
                     /\ Lookup(cache', cache[j].key) = Lookup(cache, cache[j].key)
            /\ ~call[t].present => cache' = cache
            /\ Returns(t) =>
                 /\ k \notin Keys(cache')
                 /\ cret'[t] = Outcome("done", 0)]_vars

\* C19: clear() leaves the dict empty and hits, misses, evictions at zero;
\* invalidate() without a query leaves the dict empty and the three counters as they
\* were; ttl and max_size never change.
C19_ClearAndInvalidateAll ==
    [][/\ ttl' = ttl
       /\ max_size' = max_size
       /\ \A t \in Threads :
            /\ (call[t].op = "clear" /\ Returns(t)) =>
                 /\ cache' = <<>>
                 /\ hits' = 0 /\ misses' = 0 /\ evictions' = 0
            /\ (call'[t].op = "invalidate" /\ ~call'[t].query.given) =>
                 hits' = hits /\ misses' = misses /\ evictions' = evictions
            /\ (call[t].op = "invalidate" /\ ~call[t].query.given) =>
                 /\ hits' = hits /\ misses' = misses /\ evictions' = evictions
                 /\ Returns(t) => cache' = <<>> /\ cret'[t] = Outcome("done", 0)]_vars

\* clear() has emptied the dict and reset hits and misses, which counted at least one
\* get, and is about to reset a non-zero evictions
C19_Witness ==
    /\ cpc[MainThread] = "c_evictions"
    /\ cache = <<>>
    /\ get_calls >= 1
    /\ hits = 0
    /\ misses = 0
    /\ evictions >= 1

\* an entry whose ttl has elapsed
Expired(e) == now - e.time >= ttl

\* C21: an expired entry stays in the dict until a get of its key finds it, an
\* eviction picks it, or an invalidate of its key, an invalidate without a query or
\* a clear removes it: set, invalidate(q) of another key and get of another key do
\* no sweep.  A set of a new key that finds the cache at capacity while expired
\* entries exist still evicts exactly one entry, one of smallest timestamp whether
\* expired or not, and counts the eviction.
C21_LazyExpiry ==
    [][/\ \A j \in 1..Len(cache) :
            LET e == cache[j] IN
            (Expired(e) /\ e.key \notin Keys(cache')) =>
                \E t \in Threads :
                    \/ call[t].op = "get" /\ cache_key[t] = e.key
                    \/ /\ call[t].op = "set" /\ cpc[t] = "s_del" /\ oldest_key[t] = e.key
                       /\ \A i \in 1..Len(cache) : e.time <= cache[i].time
                    \/ /\ call[t].op = "invalidate" /\ call[t].query.given
                       /\ _generate_key(call[t].query, call[t].params) = e.key
                    \/ call[t].op = "invalidate" /\ ~call[t].query.given
                    \/ call[t].op = "none" /\ call'[t].op = "clear"
       /\ \A t \in Threads :
            (/\ call[t].op = "set" /\ ~call[t].present
             /\ \E j \in 1..Len(cache) : Expired(cache[j])) =>
                /\ (cpc[t] = "s_len" /\ cpc'[t] # "s_len" /\ Len(cache) >= max_size) =>
                     cpc'[t] = "s_min"
                /\ (cpc[t] = "s_min" /\ cpc'[t] # "s_min") =>
                     /\ cpc'[t] = "s_del"
                     /\ \A i \in 1..Len(cache) :
                          Lookup(cache, oldest_key'[t]).time <= cache[i].time
                /\ (cpc[t] = "s_del" /\ cpc'[t] # "s_del") =>
                     /\ cache' = Others(cache, oldest_key[t])
                     /\ Len(cache') = Len(cache) - 1
                /\ (cpc[t] = "s_evict_store" /\ cpc'[t] # "s_evict_store") =>
                     evictions' = evictions + 1]_vars

\* thread t's QueryAnalyzer call ends with this step
QReturns(t) == qpc[t] # "idle" /\ qpc'[t] = "idle"

Last(s) == s[Len(s)]

\* C22: an analyze_query call that returns has appended exactly one record to
\* query_history, the analysis it returns, whose is_slow is execution_time >
\* slow_query_threshold; when is_slow it has appended that record once to
\* slow_queries as well, otherwise (execution_time = threshold included)
\* slow_queries is as it was.  Only the append of line 72 changes query_history
\* and only the append of line 76 changes slow_queries during the call.
C22_OneRecordPerAnalysis ==
    [][\A t \in Threads :
        qcall[t].op = "analyze" =>
            /\ (QReturns(t) /\ qret'[t].kind = "result") =>
                 LET analysis == qret'[t].value.analysis
                     n == qcall[t].seen.history
                     m == qcall[t].seen.slow
                 IN /\ Len(query_history) = n + 1
                    /\ query_history[n + 1] = analysis
                    /\ analysis.is_slow <=> analysis.execution_time > slow_query_threshold
                    /\ IF analysis.execution_time > slow_query_threshold
                       THEN /\ Len(slow_queries) = m + 1
                            /\ slow_queries[m + 1] = analysis
                            /\ analysis.is_slow
                       ELSE Len(slow_queries) = m
            /\ IF qpc[t] = "a_record" /\ qpc'[t] # "a_record"
               THEN /\ Len(query_history') = Len(query_history) + 1
                    /\ SubSeq(query_history', 1, Len(query_history)) = query_history
                    /\ Last(query_history').execution_time = qloc[t].execution_time
               ELSE query_history' = query_history
            /\ IF qpc[t] = "a_slow" /\ qpc'[t] # "a_slow"
               THEN slow_queries' = Append(slow_queries, Last(query_history))
               ELSE slow_queries' = slow_queries]_vars

\* analyze_query returned an analysis whose execution_time equals the threshold,
\* not slow, after an earlier analysis that was slow
C22_Witness ==
    /\ qpc[MainThread] = "idle"
    /\ qret[MainThread].kind = "result"
    /\ qret[MainThread].value.analysis.execution_time = slow_query_threshold
    /\ slow_query_threshold > 0
    /\ ~qret[MainThread].value.analysis.is_slow
    /\ Len(query_history) = 2
    /\ Len(slow_queries) = 1
    /\ query_history[1].is_slow

\* u is num / den rounded to an integer: it is at most one half away
Rounds(u, num, den) == 2 * (u * den - num) <= den /\ 2 * (num - u * den) <= den

\* the fields get_query_stats reports
StatsFields ==
    {"total_queries", "slow_queries", "slow_query_percentage", "avg_execution_time",
     "min_execution_time", "max_execution_time"}

\* C23: what get_query_stats returns has the fields count, slow count, slow
\* percentage, average, minimum and maximum execution time; on an empty history every
\* one of them is zero, on a non-empty history total_queries is len(query_history),
\* slow_queries is len(slow_queries) and the other fields are taken over the
\* execution times of the full history.
C23_StatsFields ==
    \A t \in Threads :
        qret[t].kind = "stats" =>
            LET stats == qret[t].value
                times == ExecutionTimes(query_history)
            IN /\ DOMAIN stats = StatsFields
               /\ IF query_history = <<>>
                  THEN \A f \in StatsFields : stats[f] = 0
                  ELSE /\ stats.total_queries = Len(query_history)
                       /\ stats.slow_queries = Len(slow_queries)
                       /\ Rounds(stats.slow_query_percentage.units,
                                 Len(slow_queries) * 100 * 100, Len(query_history))
                       /\ Rounds(stats.avg_execution_time.units,
                                 Sum(times) * 10000, Len(query_history))
                       /\ stats.min_execution_time.units = Min(times) * 10000
                       /\ stats.max_execution_time.units = Max(times) * 10000

\* C24: a compare_queries call that returns has appended exactly two records to
\* query_history, that of query1 and then that of query2, each also appended to
\* slow_queries when it is slow; it reports faster = 'query2' exactly when time2 <
\* time1 and 'query1' otherwise, a tie included, and as speedup time1 / time2 to two
\* decimals, or 0 when time2 is 0.
C24_CompareQueries ==
    [][\A t \in Threads :
        qcall[t].op = "compare" =>
            /\ Len(query_history') >= Len(query_history)
            /\ SubSeq(query_history', 1, Len(query_history)) = query_history
            /\ (QReturns(t) /\ qret'[t].kind = "comparison") =>
                 LET comparison == qret'[t].value
                     n == qcall[t].seen.history
                     m == qcall[t].seen.slow
                     first == query_history[n + 1]
                     second == query_history[n + 2]
                     time1 == first.execution_time
                     time2 == second.execution_time
                     slow == SelectSeq(<<first, second>>,
                                       LAMBDA r : r.execution_time > slow_query_threshold)
                 IN /\ Len(query_history) = n + 2
                    /\ first.query = qcall[t].query /\ first.params = qcall[t].params
                    /\ second.query = qcall[t].query2 /\ second.params = qcall[t].params2
                    /\ first.timestamp <= second.timestamp
                    /\ slow_queries = SubSeq(slow_queries, 1, m) \o slow
                    /\ comparison.faster = "query2" <=> time2 < time1
                    /\ comparison.faster = "query1" <=> time2 >= time1
                    /\ comparison.speedup.suffix = "x"
                    /\ IF time2 = 0
                       THEN comparison.speedup.units = 0
                       ELSE Rounds(comparison.speedup.units, time1 * 100, time2)]_vars

\* compare_queries returned after two executions of one second each, on a history
\* that held a record already: a tie, query1 reported faster, speedup 1.00x
C24_Witness ==
    /\ qpc[MainThread] = "idle"
    /\ qret[MainThread].kind = "comparison"
    /\ Len(query_history) = 3
    /\ query_history[2].execution_time = 1
    /\ query_history[3].execution_time = 1
    /\ qret[MainThread].value.faster = "query1"
    /\ qret[MainThread].value.speedup.units = 100

\* C25: when connection.execute of the primary query raises inside analyze_query,
\* the call ends with that exception and has recorded nothing: query_history and
\* slow_queries are what they were when analyze_query was called.
C25_FailurePropagates ==
    [][\A t \in Threads :
        (qcall[t].op \in {"analyze", "compare"} /\ qpc[t] = "a_exec") =>
            /\ query_history' = query_history
            /\ slow_queries' = slow_queries
            /\ Len(query_history) = qcall[t].seen.history + (qloc[t].stage - 1)
            /\ qpc'[t] \in {"a_exec", "a_plan", "idle"}
            /\ QReturns(t) => qret'[t].kind = "raised" /\ qret'[t].value = EngineError
            /\ (QReturns(t) /\ qcall[t].op = "analyze") =>
                 /\ Len(query_history') = qcall[t].seen.history
                 /\ Len(slow_queries') = qcall[t].seen.slow]_vars

\* analyze_query raised after an earlier call recorded a slow query, which is all the
\* two lists hold
C25_Witness ==
    /\ qpc[MainThread] = "idle"
    /\ qret[MainThread].kind = "raised"
    /\ qret[MainThread].value = EngineError
    /\ Len(query_history) = 1
    /\ Len(slow_queries) = 1
    /\ now > 0

\* C26: when the primary query succeeded and the plan query raises, analyze_query
\* goes on with an empty plan: it appends exactly one record, with query_plan = [],
\* whose execution_time and is_slow are those measured before the plan was asked
\* for, and returns the results of the primary query with that record.
C26_PlanFailureAbsorbed ==
    [][\A t \in Threads :
        qcall[t].op = "analyze" =>
            /\ (qpc[t] = "a_plan" /\ qpc'[t] # "a_plan") =>
                 /\ qpc'[t] = "a_record"
                 /\ qloc'[t].query_plan \in {EnginePlan, <<>>}
                 /\ qloc'[t].results = qloc[t].results
                 /\ qloc'[t].execution_time = qloc[t].execution_time
                 /\ query_history' = query_history
            /\ (qpc[t] = "a_record" /\ qpc'[t] # "a_record") =>
                 /\ Last(query_history').query_plan = qloc[t].query_plan
                 /\ Last(query_history').execution_time = qloc[t].execution_time
                 /\ Last(query_history').rows_returned = RowCount(qloc[t].results)
                 /\ Last(query_history').is_slow
                      <=> qloc[t].execution_time > slow_query_threshold
                 /\ qpc'[t] \in {"a_slow", "a_return"}
            /\ (qpc[t] = "a_slow" /\ qpc'[t] # "a_slow") => qpc'[t] = "a_return"
            /\ (qpc[t] = "a_return" /\ qpc'[t] # "a_return") =>
                 /\ qret'[t].kind = "result"
                 /\ qret'[t].value.results = qloc[t].results
                 /\ qret'[t].value.analysis = query_history[qcall[t].seen.history + 1]
                 /\ qret'[t].value.analysis.query_plan = qloc[t].query_plan
                 /\ Len(query_history) = qcall[t].seen.history + 1]_vars

\* analyze_query returned its results and a slow record with an empty plan
C26_Witness ==
    /\ qpc[MainThread] = "idle"
    /\ qret[MainThread].kind = "result"
    /\ qret[MainThread].value.results = NumResults
    /\ qret[MainThread].value.analysis.query_plan = <<>>
    /\ qret[MainThread].value.analysis.is_slow
    /\ Last(query_history) = qret[MainThread].value.analysis
    /\ Last(slow_queries) = qret[MainThread].value.analysis

\* C27: no step of explain_query changes query_history, slow_queries or the
\* threshold; the call ends by returning either the plan of its query or, when the
\* engine raised, a dict with the text of the error under 'error', never by raising.
C27_ExplainReadOnly ==
    [][\A t \in Threads :
        (qcall[t].op = "explain" \/ qcall'[t].op = "explain") =>
            /\ query_history' = query_history
            /\ slow_queries' = slow_queries
            /\ slow_query_threshold' = slow_query_threshold
            /\ QReturns(t) =>
                 \/ /\ qret'[t].kind = "plan"
                    /\ qret'[t].value = [query |-> qcall[t].query, plan |-> EnginePlan]
                 \/ /\ qret'[t].kind = "error"
                    /\ qret'[t].value = [error |-> EngineError]]_vars

\* explain_query returned an error dict while the analyzer held records
C27_Witness ==
    /\ qpc[MainThread] = "idle"
    /\ qret[MainThread].kind = "error"
    /\ qret[MainThread].value.error = EngineError
    /\ Len(query_history) = 2
    /\ Len(slow_queries) = 1

\* C28: while no reset_stats is under way, every step of analyze_query,
\* compare_queries, explain_query, get_slow_queries and get_query_stats leaves the
\* records of query_history where and as they are and can only append to it; a
\* reset_stats call leaves both query_history and slow_queries empty.
C28_AppendOnly ==
    [][/\ (\A t \in Threads : qcall[t].op # "reset" /\ qcall'[t].op # "reset") =>
            /\ Len(query_history') >= Len(query_history)
            /\ SubSeq(query_history', 1, Len(query_history)) = query_history
       /\ \A t \in Threads :
            (qcall[t].op = "reset" /\ QReturns(t)) =>
                /\ qret'[t].kind = "done"
                /\ query_history' = <<>>
                /\ slow_queries' = <<>>]_vars

\* reset_stats has emptied a query_history that had grown by at least two slow
\* records and is about to empty slow_queries
C28_Witness ==
    /\ qpc[MainThread] = "r_slow"
    /\ query_history = <<>>
    /\ Len(slow_queries) >= 2
    /\ slow_queries[1].timestamp < slow_queries[2].timestamp

\* the text between its first and its last character that is not a space
Trimmed(s) ==
    LET idx == {i \in 1..Len(s) : s[i] # " "} IN
    IF idx = {} THEN <<>>
    ELSE SubSeq(s, CHOOSE i \in idx : \A j \in idx : i <= j,
                   CHOOSE i \in idx : \A j \in idx : j <= i)

\* the same letter, in either case
SameLetter(c, d) == c = d \/ {c, d} = {"a", "A"} \/ {c, d} = {"b", "B"}

\* equal after trimming, case ignored
SameText(s1, s2) ==
    LET t1 == Trimmed(s1)
        t2 == Trimmed(s2)
    IN /\ Len(t1) = Len(t2)
       /\ \A i \in 1..Len(t1) : SameLetter(t1[i], t2[i])

\* equal element by element in order; None, [] and () are all the empty sequence
SameParams(p1, p2) ==
    /\ Len(p1.items) = Len(p2.items)
    /\ \A i \in 1..Len(p1.items) : p1.items[i] = p2.items[i]

\* C20: the key computed for (query, params) is the key of another pair (query2,
\* params2) exactly when the two texts are equal after trimming and lower-casing and
\* the two parameter sequences are equal element by element, None, [] and () being
\* the same sequence; it is the same at any time and in any state of the cache.
C20_KeyEquivalence ==
    \A t \in Threads :
        call[t].op = "key" =>
            \A q \in KeyQueries : \A p \in KeyParams :
                (cache_key[t] = _generate_key(q, p))
                    <=> (SameText(call[t].query.text, q.text) /\ SameParams(call[t].params, p))

\* the key of a query with leading space and upper case and a tuple of two
\* parameters, computed after time has passed and entries were cached
C20_Witness ==
    /\ call[MainThread].op = "key"
    /\ call[MainThread].query = Query(<<" ", "A">>)
    /\ call[MainThread].params = Tuple(<<1, 2>>)
    /\ cache_key[MainThread] = _generate_key(Query(<<"a">>), List(<<1, 2>>))
    /\ now = MaxTime
    /\ cache # <<>>

\* the cache key of the request thread t is handling
RequestKey(t) == _generate_key(areq[t].query, areq[t].params)

\* thread t is in get_users
InUsers(t) == areq[t].handler = "users" /\ apc[t] # "idle"

\* thread t starts a call of this step
StartsGet(t) == cpc[t] = "idle" /\ cpc'[t] = "g_in"
StartsAcquire(t) == pc[t] = "idle" /\ pc'[t] # "idle"
StartsAnalyze(t) == qpc[t] = "idle" /\ qpc'[t] # "idle"
StartsSet(t) == cpc[t] = "idle" /\ cpc'[t] = "s_len"
Releases(t) == held'[t] # held[t] /\ held'[t] \subseteq held[t]

\* C29: in get_users, with one request at a time, cache.get is called before any
\* handle is acquired; get_connection is called only after a miss (the key is not
\* in the cache then); analyze_query is called with the acquired handle, which is
\* in in_use and not released; cache.set is called, handle still held, with the
\* results of the analysis that was just appended to query_history;
\* release_connection comes last and, when the response is a success, the cache
\* holds under the request's key the rows of the response.  Until cache.get has
\* returned, the pool (handles, queue, in_use, counters) and the analyzer's lists
\* are unchanged, and a response built from the cache ends the handler there, no
\* handle held.
C29_CachedFlow ==
    [][\A t \in Threads :
        InUsers(t) =>
            /\ StartsGet(t) =>
                 /\ apc[t] = "probe"
                 /\ aconn[t] = NoConn /\ held[t] = {}
                 /\ call'[t].query = areq[t].query /\ call'[t].params = areq[t].params
            /\ apc[t] = "probe" =>
                 UNCHANGED <<poolvars, counters, held, analyzerstate>>
            /\ (aresp'[t] # aresp[t] /\ aresp'[t].cached) =>
                 /\ apc[t] = "probe" /\ apc'[t] = "idle"
                 /\ aresp'[t].kind = "success"
                 /\ RequestKey(t) \in Keys(cache)
                 /\ aresp'[t].rows = Lookup(cache, RequestKey(t)).result
                 /\ aconn[t] = NoConn /\ held[t] = {} /\ in_use = <<>>
            /\ StartsAcquire(t) =>
                 /\ apc[t] = "acquire"
                 /\ RequestKey(t) \notin Keys(cache)
                 /\ held[t] = {}
            /\ StartsAnalyze(t) =>
                 /\ apc[t] = "analyze"
                 /\ aconn[t] \in held[t] /\ aconn[t] \in Elems(in_use)
                 /\ qcall'[t].conn = aconn[t]
                 /\ qcall'[t].query = areq[t].query /\ qcall'[t].params = areq[t].params
                 /\ RequestKey(t) \notin Keys(cache)
            /\ StartsSet(t) =>
                 /\ apc[t] = "set"
                 /\ aconn[t] \in held[t] /\ aconn[t] \in Elems(in_use)
                 /\ query_history # <<>>
                 /\ Last(query_history).query = areq[t].query
                 /\ Last(query_history).rows_returned = RowCount(aresult[t])
                 /\ call'[t].result = aresult[t]
                 /\ call'[t].query = areq[t].query /\ call'[t].params = areq[t].params
            /\ Releases(t) =>
                 /\ apc[t] = "release"
                 /\ held[t] = {aconn[t]}
                 /\ aresp[t].kind = "success" =>
                      /\ ~aresp[t].cached
                      /\ RequestKey(t) \in Keys(cache)
                      /\ Lookup(cache, RequestKey(t)).result = aresp[t].rows
                      /\ aresp[t].rows = aresult[t]
      ]_vars

\* a get_users request has just been answered from the cache: the entry was stored
\* by an earlier request that missed, acquired the one handle made so far, ran the
\* one analysis made so far and released the handle
C29_Witness ==
    /\ apc[MainThread] = "idle"
    /\ areq[MainThread].handler = "users"
    /\ aresp[MainThread].kind = "success"
    /\ aresp[MainThread].cached
    /\ aresp[MainThread].rows = Lookup(cache, RequestKey(MainThread)).result
    /\ Len(query_history) = 1
    /\ query_history[1].query = areq[MainThread].query
    /\ total_requests = 1
    /\ in_use = <<>>
    /\ hits = 1 /\ misses = 1

\* no request is being handled
NoRequest == \A t \in Threads : apc[t] = "idle"

\* thread t's handler ends with this step
Leaves(t) == apc[t] # "idle" /\ apc'[t] = "idle"

\* the response of thread t's request is the exception of its query
QueryFailed(t) == aresp[t].kind = EngineError

\* C30: with one request at a time, a handler (get_users, get_orders) that was
\* given a handle by get_connection holds it until its finally block, releases it
\* there in one release_connection call that takes it out of in_use, and leaves
\* only after that, whether analyze_query returned or raised; whenever no request
\* is being handled in_use is empty and no handler holds a handle.  A request
\* whose query raised goes to the finally block with its handle and changes the
\* cache no more: get_users, which got there after a miss, leaves no entry under
\* its key, and get_orders never changes the cache.
C30_ReleasedOnEveryPath ==
    /\ [](NoRequest => (in_use = <<>> /\ \A t \in Threads : held[t] = {}))
    /\ [](\A t \in Threads :
            /\ apc[t] \in {"analyze", "set"} =>
                 (held[t] = {aconn[t]} /\ aconn[t] \in Elems(in_use))
            /\ (QueryFailed(t) /\ areq[t].handler = "users") =>
                 RequestKey(t) \notin Keys(cache))
    /\ [][\A t \in Threads :
            /\ Releases(t) =>
                 /\ apc[t] = "release"
                 /\ held[t] = {aconn[t]} /\ held'[t] = {}
                 /\ aconn[t] \in Elems(in_use)
                 /\ in_use' = Remove(in_use, aconn[t])
                 /\ aconn[t] \notin Elems(in_use')
            /\ (Leaves(t) /\ aconn[t] # NoConn) =>
                 /\ apc[t] = "release"
                 /\ aconn[t] \notin held[t]
                 /\ aconn[t] \notin Elems(in_use)
                 /\ ~handles[aconn[t]].in_use
            /\ (aresp'[t] # aresp[t] /\ aresp'[t].kind = EngineError) =>
                 /\ apc'[t] = "release"
                 /\ held[t] = {aconn[t]}
            /\ (apc[t] # "idle" /\ (QueryFailed(t) \/ areq[t].handler = "orders")) =>
                 UNCHANGED <<cache, evictions>>
        ]_vars

\* a get_users request whose query raised has ended, after an earlier request
\* whose query succeeded: both handles went back, nothing is stored under its key
C30_Witness ==
    /\ apc[MainThread] = "idle"
    /\ areq[MainThread].handler = "users"
    /\ QueryFailed(MainThread)
    /\ total_requests = 2
    /\ Len(query_history) = 1
    /\ in_use = <<>>
    /\ available # <<>>
    /\ RequestKey(MainThread) \notin Keys(cache)

\* no handle has reached an age above max_age so far: every handle was made at
\* time 0 or later
NoExpiry == now <= max_age

\* C31: one caller that releases before it acquires again, on a pool built with
\* min_connections >= 1, while no handle has expired: no miss is counted, no
\* handle is created beyond the min_connections of construction, and between
\* calls every request made so far is counted as one hit.
C31_ReuseCountsHits ==
    NoExpiry =>
        /\ total_misses = 0
        /\ total_created = min_connections
        /\ Len(handles) = min_connections
        /\ Quiet => total_hits = total_requests
        /\ total_hits <= total_requests

\* the caller is between calls after three rounds, the third handle given back
C31_Witness ==
    /\ NoExpiry
    /\ Quiet
    /\ held[MainThread] = {}
    /\ total_requests >= 3
    /\ total_hits = total_requests
    /\ Len(available) = min_connections

\* the handles returned by get_connection and not yet released
Held == UNION {held[t] : t \in Threads}

\* C32: one caller, get_connection and release_connection of held handles only:
\* whenever get_stats can run (the lock is free) its 'in_use' is the number of
\* handles returned and not yet released, which is at most max_connections, and
\* those handles are the ones in the in_use list; a release of a held handle
\* lowers 'in_use' by one and puts that handle, open, at the tail of available,
\* so that with nothing held 'in_use' is 0.
C32_StatsInUse ==
    /\ [](lock = NoThread =>
            /\ get_stats.in_use = Cardinality(Held)
            /\ Elems(in_use) = Held
            /\ get_stats.in_use <= max_connections
            /\ get_stats.total_connections = get_stats.available + get_stats.in_use
            /\ Held = {} => get_stats.in_use = 0)
    /\ [][\A t \in Threads :
            Releases(t) =>
                \E h \in held[t] :
                    /\ held'[t] = held[t] \ {h}
                    /\ Len(in_use') = Len(in_use) - 1
                    /\ available' = Append(available, h)
                    /\ ~handles'[h].closed /\ ~handles'[h].in_use
        ]_vars

\* the caller got two connections from a pool built empty, both made on demand
\* at time 0, the second while the first was held, and has released both
C32_Witness ==
    /\ Quiet
    /\ min_connections = 0
    /\ now = 0
    /\ Len(handles) = 2
    /\ Held = {}
    /\ get_stats.in_use = 0
    /\ get_stats.available = 2
    /\ Elems(available) = {1, 2}

\* the constructor returns with this step
ConstructionEnds == pc[MainThread] = "init" /\ pc'[MainThread] = "idle"

\* C33: when __init__ returns (min_connections <= max_connections), available
\* holds exactly min_connections handles, each once, open and not flagged in use,
\* in_use is empty, total_created = min_connections = total_connections, and
\* total_requests, cache_hits and cache_misses are 0; while the constructor runs
\* no handle is in use and no request is counted.
C33_ConstructedState ==
    /\ [][ConstructionEnds =>
            /\ min_connections <= max_connections
            /\ Len(handles') = min_connections
            /\ available' = [i \in 1..min_connections |-> i]
            /\ in_use' = <<>>
            /\ \A h \in 1..Len(handles') : ~handles'[h].in_use /\ ~handles'[h].closed
            /\ total_created' = min_connections
            /\ Len(available') + Len(in_use') = min_connections
            /\ total_requests' = 0 /\ total_hits' = 0 /\ total_misses' = 0
            /\ lock' = NoThread
        ]_vars
    /\ [](pc[MainThread] = "init" =>
            /\ in_use = <<>>
            /\ total_created = Len(available)
            /\ total_requests = 0)

\* the constructor has just returned from building two handles, the second a
\* second later than the first
C33_Witness ==
    /\ pc[MainThread] = "idle"
    /\ min_connections = 2
    /\ total_requests = 0
    /\ total_created = 2
    /\ available = <<1, 2>>
    /\ handles[1].created_at < handles[2].created_at

\* C34: with concurrent get_connection calls and holders that release the handles
\* they hold, a release of a held handle never finds available full: the handle is
\* appended to available and is not closed.
C34_ReleaseNeverFull ==
    [][\A t \in Threads :
        Releases(t) =>
            \E h \in held[t] :
                /\ held'[t] = held[t] \ {h}
                /\ ~QueueFull(available)
                /\ available' = Append(available, h)
                /\ ~handles'[h].closed
      ]_vars

\* every item of the sequence occurs in it once
NoDuplicate(s) == Cardinality(Elems(s)) = Len(s)

\* C35: with callers that issue get_connection and release_connection one call at
\* a time, releasing any handle they ever saw, held or not, as often as they
\* like: no handle is in available and in in_use at once, and no handle occurs
\* twice in available or twice in in_use.
C35_NoDoubleTracking ==
    /\ Elems(available) \cap Elems(in_use) = {}
    /\ NoDuplicate(available)
    /\ NoDuplicate(in_use)

\* a handle is queued in available while a caller still holds it and another
\* handle is in use: a release by a caller that did not hold it has put it back
C35_Witness ==
    /\ Quiet
    /\ \E t \in Threads : \E h \in held[t] :
          /\ h \in Elems(available)
          /\ ~handles[h].closed
    /\ in_use # <<>>

\* C36: with concurrent callers, once no get_connection call is under way,
\* total_created is the number of handles ever made (the min_connections of
\* construction and those made on demand or as replacements), and total_requests
\* is total_hits + total_misses plus the number of calls that raised, so it is not
\* below total_hits + total_misses.
C36_NoLostUpdate ==
    Quiet =>
        /\ total_created = Len(handles)
        /\ total_requests >= total_hits + total_misses

\* C37: with threads that call get_connection, release_connection, close_all and
\* get_stats in any interleaving, the thread that holds the lock is never the one
\* waiting on the queue (nor one that has not yet asked for the lock), and the
\* lock, once taken, is given back: whoever asks for it, a release among them,
\* finds it free again.
C37_NoDeadlock ==
    /\ [](\A t \in Threads :
            lock = t => pc[t] \in {"created_load", "created_store", "miss_load",
                                   "miss_store", "drain"})
    /\ (lock # NoThread) ~> (lock = NoThread)

\* a thread waits on the empty queue while another, inside close_all, holds the
\* lock, and a third party's handle is still held
C37_Witness ==
    \E t \in Threads : \E u \in Threads \ {t} :
        /\ pc[t] = "wait"
        /\ available = <<>>
        /\ lock = u
        /\ pc[u] = "drain"
        /\ held[u] # {}

\* C38: under any interleaving of concurrent get, set, invalidate and clear calls
\* on one cache, every get ends by returning a value that was stored or absent,
\* never by raising.
C38_GetNeverRaises ==
    [][\A t \in Threads :
        (call[t].op = "get" /\ Returns(t)) =>
            /\ cret'[t].kind \in {"value", "absent"}
            /\ cret'[t].kind = "value" => cret'[t].value \in Results
      ]_vars

\* C39: with threads calling analyze_query, get_query_stats and reset_stats on one
\* analyzer, whenever no call is under way every record of slow_queries is a record
\* of query_history and slow_queries is no longer than query_history, and no
\* get_query_stats call ends in a division by zero.
AnalyzerQuiet == \A t \in Threads : qpc[t] = "idle"

SlowWithinHistory ==
    /\ Len(slow_queries) <= Len(query_history)
    /\ \A i \in 1..Len(slow_queries) :
          \E j \in 1..Len(query_history) : query_history[j] = slow_queries[i]

DividedByZero(t) == qret[t].kind = "raised" /\ qret[t].value = "ZeroDivisionError"

C39_SlowWithinHistory ==
    /\ AnalyzerQuiet => SlowWithinHistory
    /\ \A t \in Threads : ~DividedByZero(t)

\* the query argument of the call of t is the empty string
EmptyText(t) == call[t].query.given /\ call[t].query.text = <<>>

\* every entry of c under another key than k is in d, unchanged
KeepsOthers(c, d, k) ==
    \A j \in 1..Len(c) :
        c[j].key # k => c[j].key \in Keys(d) /\ Lookup(d, c[j].key) = Lookup(c, c[j].key)

====
